---- MODULE Spec2Model ----
(***************************************************************************)
(* State-machine model of the Billing AI backend:                          *)
(*   - the HTTP handlers of app/api/billing.py over the session store, the *)
(*     per-user BillingService registry and the S3 bucket      (Spec)      *)
(*   - the BillingAgent (orchestrator) driven through its own methods      *)
(*                                                             (SpecAgent) *)
(*   - the rate limiter of app/main.py                         (SpecRate)  *)
(***************************************************************************)
EXTENDS Integers, Sequences, FiniteSets, TLC

(***************************************************************************)
(* Python values and string functions                                      *)
(***************************************************************************)

\* Python's None, kept apart from every string the model uses
None == "<None>"

\* a `not v` that tests for None alone
FalsyOnlyNone(v) == v = None

\* `not v` for an Optional[str]: None and the empty string are falsy
Falsy(v) == v = None \/ v = ""

\* str.startswith
StartsWith(s, p) == Len(s) >= Len(p) /\ SubSeq(s, 1, Len(p)) = p

\* str.endswith
EndsWith(s, p) == Len(s) >= Len(p) /\ SubSeq(s, Len(s) - Len(p) + 1, Len(s)) = p

\* the characters str.strip removes
IsSpace(c) == c \in {" ", "\t", "\n", "\r", "\f"}

RECURSIVE LStrip(_)
\* str.lstrip
LStrip(s) ==
    IF s # "" /\ IsSpace(SubSeq(s, 1, 1)) THEN LStrip(SubSeq(s, 2, Len(s))) ELSE s

RECURSIVE RStrip(_)
\* str.rstrip
RStrip(s) ==
    IF s # "" /\ IsSpace(SubSeq(s, Len(s), Len(s)))
        THEN RStrip(SubSeq(s, 1, Len(s) - 1))
        ELSE s

\* str.strip
Strip(s) == RStrip(LStrip(s))

RECURSIVE Split(_, _)
\* str.split(sep) for a one-character separator
Split(s, sep) ==
    LET hits == {i \in 1..Len(s) : SubSeq(s, i, i) = sep}
    IN  IF hits = {}
            THEN <<s>>
            ELSE LET i == CHOOSE h \in hits : \A g \in hits : h <= g
                 IN  <<SubSeq(s, 1, i - 1)>> \o Split(SubSeq(s, i + 1, Len(s)), sep)

\* `sub in s` for strings
Contains(s, sub) ==
    \E i \in 1..(Len(s) - Len(sub) + 1) : SubSeq(s, i, i + Len(sub) - 1) = sub

\* str.lower on one character (ASCII letters)
LowerChar(c) ==
    CASE c = "A" -> "a" [] c = "B" -> "b" [] c = "C" -> "c" [] c = "D" -> "d"
      [] c = "E" -> "e" [] c = "F" -> "f" [] c = "G" -> "g" [] c = "H" -> "h"
      [] c = "I" -> "i" [] c = "J" -> "j" [] c = "K" -> "k" [] c = "L" -> "l"
      [] c = "M" -> "m" [] c = "N" -> "n" [] c = "O" -> "o" [] c = "P" -> "p"
      [] c = "Q" -> "q" [] c = "R" -> "r" [] c = "S" -> "s" [] c = "T" -> "t"
      [] c = "U" -> "u" [] c = "V" -> "v" [] c = "W" -> "w" [] c = "X" -> "x"
      [] c = "Y" -> "y" [] c = "Z" -> "z" [] OTHER -> c

\* str.lower
RECURSIVE Lower(_)
Lower(s) == IF s = "" THEN "" ELSE LowerChar(SubSeq(s, 1, 1)) \o Lower(Tail(s))

\* str.rfind(".") : the 1-based position of the last dot, 0 when there is none
RECURSIVE RFindDot(_, _)
RFindDot(s, i) ==
    IF i = 0 THEN 0
    ELSE IF SubSeq(s, i, i) = "." THEN i ELSE RFindDot(s, i - 1)

\* pathlib.Path(filename).stem for a file name without directory part: the
\* name up to its last dot, the whole name when the dot is first or last
Stem(filename) ==
    LET i == RFindDot(filename, Len(filename))
    IN  IF 1 < i /\ i < Len(filename) THEN SubSeq(filename, 1, i - 1)
        ELSE filename

\* an optional object: the empty set for None, a singleton otherwise
Nothing == {}
Some(x) == {x}
The(opt) == CHOOSE x \in opt : TRUE

\* dict helpers: the empty dict, d[k] = v, and deletion of a set of keys
EmptyDict == [k \in {} |-> None]
Put(d, k, v) == [x \in DOMAIN d \cup {k} |-> IF x = k THEN v ELSE d[x]]
Without(d, ks) == [x \in DOMAIN d \ ks |-> d[x]]

(***************************************************************************)
(* Inputs and bounds                                                       *)
(***************************************************************************)

\* identities that send requests
Usernames == {"alice", "bob"}

\* well-formed API keys; the first and the third have the same MD5 prefix
KeyA == "sk-test-key-00000000000017551"
KeyB == "sk-bob-key-000000000002"
KeyC == "sk-test-key-00000000000063611"
ValidKeys == {KeyA, KeyB, KeyC}

\* malformed API keys: too short, and without the sk- prefix
BadKeys == {"sk-short", "pk-test-key-00000000000017551"}

\* what a workbook in the bucket holds: two different parseable contents, and
\* one pandas cannot read (no "Billing Invoice (BI) Detail" sheet)
Corrupt == "corrupt"
Contents == {"v1", "v2", Corrupt}

\* largest wall-clock time (seconds) a measured query may take in the model
MaxElapsed == 1

(***************************************************************************)
(* BillingAgent (app/agents/billing_agent.py)                              *)
(***************************************************************************)

SheetName == "Billing Invoice (BI) Detail"

\* hashlib.md5(api_key.encode()).hexdigest()[:8], tabulated for the keys used
Md5Prefix(api_key) ==
    CASE api_key = KeyA -> "1c1ea248"
      [] api_key = KeyB -> "a2300f7e"
      [] api_key = KeyC -> "1c1ea248"

\* the session prefix of a cache key
KeyHash(api_key) == IF ~Falsy(api_key) THEN Md5Prefix(api_key) ELSE "default"

\* BillingAgent._get_cache_key
GetCacheKey(api_key, file_name) ==
    KeyHash(api_key) \o "_" \o (IF ~Falsy(file_name) THEN file_name ELSE "all_files")

\* tool name of a workbook
ToolName(filename) == "Excel Agent - " \o Stem(filename)

\* BillingAgent.__init__
NewAgent == [default_llm |-> Nothing, loaded_files |-> EmptyDict, agent_cache |-> EmptyDict]

\* an invalidation that keeps the cached executors
InvalidateCacheKeeping(agent) == agent

\* BillingAgent._invalidate_cache
InvalidateCache(agent) == [agent EXCEPT !.agent_cache = EmptyDict]

\* BillingAgent.clear_loaded_files
ClearLoadedFiles(agent) ==
    [agent EXCEPT !.loaded_files = EmptyDict, !.agent_cache = EmptyDict]

\* a load_excel_file that leaves the executor cache as it was
LoadExcelFileKeepingCache(agent, content, filename) ==
    LET tool_name == ToolName(filename)
    IN  IF content = Corrupt
        THEN [raised |-> TRUE, agent |-> agent, value |-> None]
        ELSE [raised |-> FALSE,
              agent  |-> [agent EXCEPT !.loaded_files =
                            Put(@, tool_name, [file_path |-> filename,
                                               sheet_name |-> SheetName,
                                               dataframe |-> content])],
              value  |-> tool_name]

\* BillingAgent.load_excel_file: [raised, agent, value]
LoadExcelFile(agent, content, filename) ==
    LET tool_name == ToolName(filename)
    IN  IF content = Corrupt
        THEN [raised |-> TRUE, agent |-> agent, value |-> None]
        ELSE [raised |-> FALSE,
              agent  |-> InvalidateCache(
                           [agent EXCEPT !.loaded_files =
                              Put(@, tool_name, [file_path |-> filename,
                                                 sheet_name |-> SheetName,
                                                 dataframe |-> content])]),
              value  |-> tool_name]

\* an invalidate_session_cache that removes every cached executor
InvalidateSessionCacheOfAll(agent, api_key) ==
    [agent EXCEPT !.agent_cache = EmptyDict]

\* an invalidate_session_cache that removes nothing
InvalidateSessionCacheKeepingAll(agent, api_key) == agent

\* BillingAgent.invalidate_session_cache
InvalidateSessionCache(agent, api_key) ==
    LET key_hash == KeyHash(api_key)
        keys_to_remove == {ck \in DOMAIN agent.agent_cache : StartsWith(ck, key_hash)}
    IN  [agent EXCEPT !.agent_cache = Without(@, keys_to_remove)]

\* BillingAgent.get_cache_info
GetCacheInfo(agent) ==
    [cached_executors |-> DOMAIN agent.agent_cache,
     cache_size |-> Cardinality(DOMAIN agent.agent_cache)]

\* BillingAgent._get_llm with the default_llm property: [raised, agent, llm]
GetLlm(agent, api_key, env_key) ==
    IF ~Falsy(api_key)
    THEN [raised |-> FALSE, agent |-> agent, llm |-> [openai_api_key |-> api_key]]
    ELSE IF agent.default_llm # Nothing
    THEN [raised |-> FALSE, agent |-> agent, llm |-> The(agent.default_llm)]
    ELSE IF Falsy(env_key)
    THEN [raised |-> TRUE, agent |-> agent, llm |-> None]
    ELSE [raised |-> FALSE,
          agent  |-> [agent EXCEPT !.default_llm = Some([openai_api_key |-> env_key])],
          llm    |-> [openai_api_key |-> env_key]]

\* a selection that compares the filter and the file path as they are written
FilesToProcessCaseSensitive(agent, file_name) ==
    IF ~Falsy(file_name)
    THEN {name \in DOMAIN agent.loaded_files :
            Contains(agent.loaded_files[name].file_path, file_name)}
    ELSE DOMAIN agent.loaded_files

\* the tables _get_or_create_agent_executor builds tools for
FilesToProcess(agent, file_name) ==
    IF ~Falsy(file_name)
    THEN {name \in DOMAIN agent.loaded_files :
            Contains(Lower(agent.loaded_files[name].file_path), Lower(file_name))}
    ELSE DOMAIN agent.loaded_files

\* BillingAgent._get_or_create_agent_executor: [raised, error, agent, executor,
\* built]; build_ok is whether the prompt pull and the agent construction succeed
GetOrCreateAgentExecutor(agent, llm, file_name, api_key, build_ok) ==
    LET cache_key == GetCacheKey(api_key, file_name)
        files_to_process == FilesToProcess(agent, file_name)
        tools == {[name |-> n, dataframe |-> agent.loaded_files[n].dataframe] :
                    n \in files_to_process}
        executor == [llm |-> llm, tools |-> tools]
    IN  IF cache_key \in DOMAIN agent.agent_cache
        THEN [raised |-> FALSE, error |-> "", agent |-> agent,
              executor |-> Some(agent.agent_cache[cache_key]), built |-> FALSE]
        ELSE IF ~Falsy(file_name) /\ files_to_process = {}
        THEN [raised |-> TRUE, error |-> "No loaded file matches: " \o file_name,
              agent |-> agent, executor |-> Nothing, built |-> FALSE]
        ELSE IF ~build_ok
        THEN [raised |-> TRUE, error |-> "agent construction failed",
              agent |-> agent, executor |-> Nothing, built |-> FALSE]
        ELSE [raised |-> FALSE, error |-> "",
              agent |-> [agent EXCEPT !.agent_cache = Put(@, cache_key, executor)],
              executor |-> Some(executor), built |-> TRUE]

\* a failure result that carries the bare exception message
QueryErrorBare(message, elapsed) ==
    [answer |-> message, reasoning |-> "", execution_time |-> elapsed, tools_used |-> 0]

\* the structured failure result of BillingAgent.query's except branch
QueryError(message, elapsed) ==
    [answer |-> "Error processing query: " \o message, reasoning |-> "",
     execution_time |-> elapsed, tools_used |-> 0]

\* BillingAgent.query: [agent, result, executor, built]. data_dir_exists,
\* env_key, build_ok, invoke_ok and elapsed are the environment's part: whether
\* settings.DATA_DIRECTORY exists, settings.OPENAI_API_KEY, whether building and
\* invoking the executor succeed, and the measured wall-clock time
AgentQuery(agent, file_name, api_key, data_dir_exists, env_key, build_ok, invoke_ok, elapsed) ==
    LET llm == GetLlm(agent, api_key, env_key)
        fail(a, message) == [agent |-> a, result |-> QueryError(message, elapsed),
                             executor |-> Nothing, built |-> FALSE]
        \* the steps from _get_or_create_agent_executor on, given what it returned
        run(ex) ==
            IF ex.raised
            THEN fail(ex.agent, ex.error)
            ELSE IF ~invoke_ok
            THEN [agent |-> ex.agent,
                  result |-> QueryError("executor invocation failed", elapsed),
                  executor |-> ex.executor, built |-> ex.built]
            ELSE [agent |-> ex.agent,
                  result |-> [answer |-> "output", reasoning |-> "transcript",
                              execution_time |-> elapsed,
                              tools_used |-> Cardinality(The(ex.executor).tools)],
                  executor |-> ex.executor, built |-> ex.built]
    IN  IF DOMAIN agent.loaded_files = {} /\ data_dir_exists
        THEN \* load_excel_file(str(default_file)) lacks its filename argument
             fail(agent, "load_excel_file() missing 1 required positional argument: 'filename'")
        ELSE IF DOMAIN agent.loaded_files = {}
        THEN fail(agent, "No Excel files loaded. Please upload a file first.")
        ELSE IF llm.raised
        THEN [agent |-> agent,
              result |-> [answer |-> "No API key available. Please provide an API key using the set-api-key endpoint or set OPENAI_API_KEY in your .env file.",
                          reasoning |-> "No API key configured",
                          execution_time |-> 0, tools_used |-> 0],
              executor |-> Nothing, built |-> FALSE]
        ELSE The({run(ex) : ex \in {GetOrCreateAgentExecutor(llm.agent, llm.llm, file_name,
                                                             api_key, build_ok)}})

(***************************************************************************)
(* State                                                                   *)
(***************************************************************************)

VARIABLES
    env,        \* the process environment: S3 credentials set, OPENAI_API_KEY, data directory present
    store,      \* user_api_keys._store: username -> [api_key, is_new_user]
    services,   \* _billing_service_instances: username -> BillingService
    bucket,     \* the S3 bucket: object key -> content
    response,   \* the last request and the response it got
    agent,      \* a BillingAgent driven through its own methods (SpecAgent)
    agentResp,  \* the last method call on it and what it returned
    rate_limit_storage, \* main.rate_limit_storage: client IP -> request times (SpecRate)
    now,        \* the clock time.time() reads, in seconds
    rateResp,   \* the last request the middleware saw and what it did with it
    upload,     \* payload size and injected failure of the last request, an upload or a deletion
    extraction, \* captured reasoning steps and the transcript made of them (SpecTranscript)
    tasks,      \* the requests in flight: task -> where its coroutine stands and its locals
    running     \* the task the event loop is running, "none" between tasks

vars == <<env, store, services, bucket, response, agent, agentResp,
          rate_limit_storage, now, rateResp, upload, extraction, tasks, running>>

httpVars == <<env, store, services, bucket, response>>
agentVars == <<agent, agentResp>>
rateVars == <<rate_limit_storage, now, rateResp>>
taskVars == <<tasks, running>>
otherVars == <<agent, agentResp, rate_limit_storage, now, rateResp, extraction, tasks, running>>

(***************************************************************************)
(* BillingService (app/services/billing_service.py) and S3Storage          *)
(***************************************************************************)

\* BillingService.__init__ (S3Storage.__init__ succeeded)
NewService(username) == [username |-> username, agent |-> NewAgent]

\* S3Storage.download_file_to_stream: the content, or None after a ClientError
\* (the key is absent, or the call failed); dl is how the call ends
DownloadFileToStream(bkt, filename, dl) ==
    IF dl = "ok" /\ filename \in DOMAIN bkt THEN bkt[filename] ELSE None

\* BillingService._ensure_file_loaded: [raised, service, value, calls]
EnsureFileLoaded(service, filename, bkt, dl) ==
    LET tool_name == ToolName(filename)
        file_stream == DownloadFileToStream(bkt, filename, dl)
    IN  IF tool_name \in DOMAIN service.agent.loaded_files
        THEN [raised |-> FALSE, service |-> service, value |-> tool_name, calls |-> {}]
        ELSE IF dl = "error"
        THEN [raised |-> TRUE, service |-> service, value |-> None,
              calls |-> {"download"}]
        ELSE IF file_stream = None
        THEN [raised |-> FALSE, service |-> service, value |-> None,
              calls |-> {"download"}]
        ELSE IF file_stream = Corrupt
        THEN [raised |-> TRUE, service |-> service, value |-> None,
              calls |-> {"download", "read_excel"}]
        ELSE [raised |-> FALSE,
              service |-> [service EXCEPT !.agent.loaded_files =
                             Put(@, tool_name, [file_path |-> filename,
                                                sheet_name |-> SheetName,
                                                dataframe |-> file_stream])],
              value |-> tool_name,
              calls |-> {"download", "read_excel"}]

\* an _unload_files that leaves the tables in memory
UnloadFilesKeepingTables(service) == service

\* BillingService._unload_files
UnloadFiles(service) == [service EXCEPT !.agent.loaded_files = EmptyDict]

\* BillingService.clear_cache
ClearCache(service) == [service EXCEPT !.agent = InvalidateCache(@)]

\* the four-field result dicts process_query builds itself
ServiceResult(answer, reasoning) ==
    [answer |-> answer, reasoning |-> reasoning, execution_time |-> 0, tools_used |-> 0]

\* BillingService.process_query: [service, result, calls, executor, built]
ProcessQuery(service, file_name, api_key, bkt, dl, data_dir_exists, env_key, build_ok, invoke_ok, elapsed) ==
    LET loaded == EnsureFileLoaded(service, file_name, bkt, dl)
        q == AgentQuery(loaded.service.agent, file_name, api_key, data_dir_exists,
                        env_key, build_ok, invoke_ok, elapsed)
    IN  IF Falsy(file_name)
        THEN [service |-> service,
              result |-> ServiceResult("Please select a specific file to analyze.",
                                       "No file specified"),
              calls |-> {}, executor |-> Nothing, built |-> FALSE]
        ELSE IF loaded.raised
        THEN [service |-> UnloadFiles(loaded.service),
              result |-> ServiceResult("Error: failed to load " \o file_name, ""),
              calls |-> loaded.calls \cup {"unload"}, executor |-> Nothing, built |-> FALSE]
        ELSE IF Falsy(loaded.value)
        THEN [service |-> loaded.service,
              result |-> ServiceResult("File not found or failed to load.",
                                       "File loading failed"),
              calls |-> loaded.calls, executor |-> Nothing, built |-> FALSE]
        ELSE [service |-> UnloadFiles([loaded.service EXCEPT !.agent = q.agent]),
              result |-> q.result,
              calls |-> loaded.calls \cup {"agent.query", "unload"},
              executor |-> q.executor, built |-> q.built]

\* an upload_file that reports success whatever the S3 call did
UploadFileAlwaysTrue(ul) == TRUE

\* S3Storage.upload_file: TRUE, or FALSE after a ClientError (load_file raises
\* on FALSE, and any other exception of the S3 call passes through it)
UploadFile(ul) == ul = "ok"

(***************************************************************************)
(* SessionStore and the service registry (app/api/billing.py)              *)
(***************************************************************************)

\* a SessionStore.set that marks a known user as returning
StoreSetMarkingReturning(st, username, api_key) ==
    IF username \notin DOMAIN st
    THEN Put(st, username, [api_key |-> api_key, is_new_user |-> TRUE])
    ELSE [st EXCEPT ![username] = [api_key |-> api_key, is_new_user |-> FALSE]]

\* SessionStore.set
StoreSet(st, username, api_key) ==
    IF username \notin DOMAIN st
    THEN Put(st, username, [api_key |-> api_key, is_new_user |-> TRUE])
    ELSE [st EXCEPT ![username] = [api_key |-> api_key, is_new_user |-> @.is_new_user]]

\* SessionStore.get
StoreGet(st, username) == IF username \in DOMAIN st THEN st[username].api_key ELSE None

\* a SessionStore.delete that keeps the key
StoreDeleteKeepingKey(st, username) == st

\* a delete that drops the whole record
StoreDeleteDroppingRecord(st, username) == Without(st, {username})

\* SessionStore.delete
StoreDelete(st, username) ==
    IF username \in DOMAIN st THEN [st EXCEPT ![username].api_key = None] ELSE st

\* SessionStore.has_user
HasUser(st, username) == username \in DOMAIN st

\* SessionStore.has_api_key
HasApiKey(st, username) == username \in DOMAIN st /\ st[username].api_key # None

\* a status that takes every record to hold a key
GetUserStatusAnyRecord(st, username) ==
    IF ~HasUser(st, username)
    THEN [exists |-> FALSE, has_api_key |-> FALSE, is_new_user |-> TRUE]
    ELSE [exists |-> TRUE, has_api_key |-> TRUE, is_new_user |-> st[username].is_new_user]

\* SessionStore.get_user_status
GetUserStatus(st, username) ==
    IF ~HasUser(st, username)
    THEN [exists |-> FALSE, has_api_key |-> FALSE, is_new_user |-> TRUE]
    ELSE [exists |-> TRUE, has_api_key |-> st[username].api_key # None,
          is_new_user |-> st[username].is_new_user]

\* a BillingService() that is built without S3 credentials
CanBuildServiceAlways(e, svcs, username) == TRUE

\* get_billing_service(username) for a username: the registry afterwards (the
\* caller reads its service at [username]); BillingService() raises when the S3
\* credentials are not configured, which callers test with CanBuildService
CanBuildService(e, svcs, username) == username \in DOMAIN svcs \/ e.s3_configured
GetBillingService(svcs, username) ==
    IF username \notin DOMAIN svcs THEN Put(svcs, username, NewService(username)) ELSE svcs

\* a cleanup that empties the registry
CleanupUserSessionAll(svcs, username) == EmptyDict

\* a cleanup that leaves the instance in the registry
CleanupUserSessionKeeping(svcs, username) == svcs

\* cleanup_user_session
CleanupUserSession(svcs, username) == Without(svcs, {username})

\* a SetApiKeyRequest without the length and prefix validators
ValidSetApiKeyRequestAnyKey(username, api_key) == username # ""

\* SetApiKeyRequest: the pydantic model accepts the body
ValidSetApiKeyRequest(username, api_key) ==
    /\ Len(api_key) >= 20
    /\ StartsWith(api_key, "sk-")
    /\ username # ""

\* a response: the request (operation, username, its other argument), the status
\* code, the body, the dict process_query returned (empty when it was not called)
\* and the collaborators the handler reached
Resp(op, username, arg, status, body, result, calls) ==
    [op |-> op, username |-> username, arg |-> arg, status |-> status,
     body |-> body, result |-> result, calls |-> calls]

Detail(text) == [detail |-> text]

(***************************************************************************)
(* HTTP handlers (app/api/billing.py)                                      *)
(***************************************************************************)

\* POST /set-api-key
SetApiKey(username, api_key) ==
    LET user_status == GetUserStatus(store, username)
        old_key == StoreGet(store, username)
        svcs == IF ~Falsy(old_key) THEN GetBillingService(services, username) ELSE services
        reply(status, body, calls) ==
            response' = Resp("set_api_key", username, api_key, status, body, EmptyDict, calls)
    IN  IF ~ValidSetApiKeyRequest(username, api_key)
        THEN /\ reply(422, Detail("validation error"), {})
             /\ UNCHANGED <<env, store, services, bucket>>
        ELSE IF ~StartsWith(api_key, "sk-")
        THEN /\ reply(400, Detail("Invalid API key format. OpenAI keys start with 'sk-'"), {})
             /\ UNCHANGED <<env, store, services, bucket>>
        ELSE IF Falsy(username)
        THEN /\ reply(400, Detail("Username is required"), {})
             /\ UNCHANGED <<env, store, services, bucket>>
        ELSE IF ~Falsy(old_key) /\ ~CanBuildService(env, services, username)
        THEN /\ reply(500, Detail("Error setting API key"), {"get_billing_service"})
             /\ UNCHANGED <<env, store, services, bucket>>
        ELSE /\ services' =
                  IF ~Falsy(old_key)
                  THEN [svcs EXCEPT ![username].agent = InvalidateSessionCache(@, old_key)]
                  ELSE services
             /\ store' = StoreSet(store, username, api_key)
             /\ reply(200,
                      [success |-> TRUE,
                       message |-> IF user_status.is_new_user
                                   THEN "Signed up and API key set successfully"
                                   ELSE "Signed in and API key updated successfully",
                       username |-> username, using_custom_key |-> TRUE,
                       is_new_user |-> user_status.is_new_user],
                      IF ~Falsy(old_key) THEN {"get_billing_service"} ELSE {})
             /\ UNCHANGED <<env, bucket>>

\* DELETE /remove-api-key
RemoveApiKey(username) ==
    LET api_key == StoreGet(store, username)
        svcs == GetBillingService(services, username)
        reply(status, body, calls) ==
            response' = Resp("remove_api_key", username, None, status, body, EmptyDict, calls)
    IN  IF Falsy(username)
        THEN /\ reply(400, Detail("Username is required"), {})
             /\ UNCHANGED <<env, store, services, bucket>>
        ELSE IF ~HasApiKey(store, username)
        THEN /\ reply(200, [success |-> TRUE,
                            message |-> "No custom API key was set for this user."], {})
             /\ UNCHANGED <<env, store, services, bucket>>
        ELSE IF ~CanBuildService(env, services, username)
        THEN /\ reply(500, Detail("Error removing API key"), {"get_billing_service"})
             /\ UNCHANGED <<env, store, services, bucket>>
        ELSE /\ services' = [svcs EXCEPT ![username].agent = InvalidateSessionCache(@, api_key)]
             /\ store' = StoreDelete(store, username)
             /\ reply(200, [success |-> TRUE,
                            message |-> "API key removed. Using default key from environment."],
                      {"get_billing_service"})
             /\ UNCHANGED <<env, bucket>>

\* GET /api-key-status
GetApiKeyStatus(username) ==
    LET user_status == GetUserStatus(store, username)
        cache_info == GetCacheInfo(NewService(None).agent)
        reply(status, body, calls) ==
            response' = Resp("api_key_status", username, None, status, body, EmptyDict, calls)
    IN  /\ IF Falsy(username)
           THEN reply(400, Detail("Username is required"), {})
           ELSE IF ~env.s3_configured
           THEN reply(500, Detail("Internal Server Error"), {"get_billing_service"})
           ELSE reply(200,
                      [exists |-> user_status.exists,
                       has_api_key |-> user_status.has_api_key,
                       is_new_user |-> user_status.is_new_user,
                       has_env_key |-> ~Falsy(env.OPENAI_API_KEY),
                       using_custom_key |-> user_status.has_api_key,
                       username |-> username,
                       cache_info |-> cache_info],
                      {"get_billing_service"})
        /\ UNCHANGED <<env, store, services, bucket>>

\* settings.MAX_FILE_SIZE
MAX_FILE_SIZE == 50 * 1024 * 1024

\* file names a query may carry (file_name is optional), names of uploaded
\* files, and uploaded payloads: what the workbook holds and its size in bytes
QueryFileNames == {"aug.xlsx", "", None}
UploadFileNames == {"aug.xlsx", "notes.csv"}
Payloads ==
    {[data |-> "v1", size |-> MAX_FILE_SIZE - 1],
     [data |-> "v2", size |-> MAX_FILE_SIZE],
     [data |-> Corrupt, size |-> MAX_FILE_SIZE],
     [data |-> "v1", size |-> MAX_FILE_SIZE + 1]}

\* the first failure the environment injects into a request: none, botocore's
\* ClientError or another exception from the S3 call, a failure to build the
\* executor (prompt pull, agent construction), a failure of executor.invoke.
\* A failure ends the request's work, so one fault for each request covers
\* every run
QueryFaults == {"none", "client_error", "s3_error", "build", "invoke"}
S3Faults == {"none", "client_error", "s3_error"}

\* how the S3 call of a request ends under a fault
S3Outcome(fault) ==
    CASE fault = "client_error" -> "client_error"
      [] fault = "s3_error" -> "error"
      [] OTHER -> "ok"

\* POST /query, for a request BillingQueryRequest accepted (query text not
\* empty, username stripped and not empty)
Query(username, file_name, fault, elapsed) ==
    LET api_key == StoreGet(store, username)
        svcs == GetBillingService(services, username)
        reply(status, body, result, calls) ==
            response' = Resp("query", username, file_name, status, body, result, calls)
    IN  IF ~HasUser(store, username)
        THEN /\ reply(401, Detail("User not found. Please set up your session first."),
                      EmptyDict, {})
             /\ UNCHANGED <<env, store, services, bucket>>
        ELSE IF Falsy(api_key)
        THEN /\ reply(401, Detail("No API key set for this user. Please set your API key first."),
                      EmptyDict, {})
             /\ UNCHANGED <<env, store, services, bucket>>
        ELSE IF ~CanBuildService(env, services, username)
        THEN /\ reply(500, Detail("Error processing query"), EmptyDict,
                      {"get_billing_service"})
             /\ UNCHANGED <<env, store, services, bucket>>
        ELSE \E pq \in {ProcessQuery(svcs[username], file_name, api_key, bucket,
                                     S3Outcome(fault), env.data_dir_exists,
                                     env.OPENAI_API_KEY, fault # "build",
                                     fault # "invoke", elapsed)} :
             /\ services' = [svcs EXCEPT ![username] = pq.service]
             /\ reply(200,
                      [success |-> TRUE, answer |-> pq.result.answer,
                       reasoning |-> pq.result.reasoning,
                       execution_time |-> pq.result.execution_time,
                       using_custom_key |-> TRUE, username |-> username],
                      pq.result,
                      {"get_billing_service", "process_query"} \cup pq.calls)
             /\ UNCHANGED <<env, store, bucket>>

\* a size check that turns away a payload of exactly the maximum size
TooLargeInclusive(content) == content.size >= MAX_FILE_SIZE

\* the size check of upload_excel_file
TooLarge(content) == content.size > MAX_FILE_SIZE

\* POST /upload
UploadExcelFile(filename, content, username, fault) ==
    LET svcs == GetBillingService(services, username)
        reply(status, body, calls) ==
            response' = Resp("upload", username, filename, status, body, EmptyDict, calls)
    IN  IF ~(EndsWith(filename, ".xlsx") \/ EndsWith(filename, ".xls"))
        THEN /\ reply(400, Detail("Only Excel files (.xlsx, .xls) are supported"), {})
             /\ UNCHANGED <<env, store, services, bucket>>
        ELSE IF TooLarge(content)
        THEN /\ reply(400, Detail("File too large. Max size: 50.0MB"), {})
             /\ UNCHANGED <<env, store, services, bucket>>
        ELSE IF ~env.s3_configured
        THEN /\ reply(500, Detail("Error uploading file"), {"get_billing_service"})
             /\ UNCHANGED <<env, store, services, bucket>>
        ELSE IF ~UploadFile(S3Outcome(fault))
        THEN /\ reply(500, Detail("Failed to process file"), {"get_billing_service", "upload"})
             /\ UNCHANGED <<env, store, services, bucket>>
        ELSE /\ bucket' = Put(bucket, filename, content.data)
             /\ services' = IF ~Falsy(username)
                            THEN [svcs EXCEPT ![username].agent = InvalidateCache(@)]
                            ELSE services
             /\ reply(200, [success |-> TRUE, message |-> "File uploaded to S3 successfully",
                            filename |-> filename],
                      {"get_billing_service", "upload"})
             /\ UNCHANGED <<env, store>>

\* S3Storage.list_files: the keys of the bucket, nothing after a ClientError
S3ListFiles(bkt, ls) == IF ls = "ok" THEN DOMAIN bkt ELSE {}

\* GET /files; its service comes from Depends(get_billing_service), whose
\* username parameter is an optional query parameter
ListFiles(username, fault) ==
    LET svcs == IF username = None THEN services ELSE GetBillingService(services, username)
        reply(status, body, calls) ==
            response' = Resp("files", username, None, status, body, EmptyDict, calls)
    IN  IF ~CanBuildService(env, services, username)
        THEN /\ reply(500, Detail("Internal Server Error"), {"get_billing_service"})
             /\ UNCHANGED <<env, store, services, bucket>>
        ELSE IF S3Outcome(fault) = "error"
        THEN /\ services' = svcs
             /\ reply(500, Detail("Error listing files"), {"get_billing_service", "list"})
             /\ UNCHANGED <<env, store, bucket>>
        ELSE /\ services' = svcs
             /\ reply(200, [success |-> TRUE, files |-> S3ListFiles(bucket, S3Outcome(fault))],
                      {"get_billing_service", "list"})
             /\ UNCHANGED <<env, store, bucket>>

\* an existence probe that finds every object
S3FileExistsAlways(bkt, filename, fault) == TRUE

\* S3Storage.file_exists: head_object; a ClientError reads as "does not exist"
S3FileExists(bkt, filename, fault) ==
    S3Outcome(fault) # "client_error" /\ filename \in DOMAIN bkt

\* S3Storage.delete_file: delete_object succeeds whether or not the key exists;
\* a ClientError is logged and reported as False
S3DeleteFile(bkt, filename, fault) ==
    IF S3Outcome(fault) = "client_error"
        THEN [ok |-> FALSE, bucket |-> bkt]
        ELSE [ok |-> TRUE, bucket |-> Without(bkt, {filename})]

\* DELETE /files/{filename}: not found when the object does not exist or the
\* deletion fails; a deletion clears the tables of the default service's agent,
\* a BillingService() built for the request, and sweeps the remaining objects
DeleteFile(filename, fault) ==
    LET reply(status, body, calls) ==
            response' = Resp("delete_file", None, filename, status, body, EmptyDict, calls)
    IN  IF ~CanBuildService(env, services, None)
        THEN /\ reply(500, Detail("Internal Server Error"), {"get_billing_service"})
             /\ UNCHANGED <<env, store, services, bucket>>
        ELSE IF S3Outcome(fault) = "error"
        THEN /\ reply(500, Detail("Error deleting file"), {"get_billing_service", "delete"})
             /\ UNCHANGED <<env, store, services, bucket>>
        ELSE IF ~S3FileExists(bucket, filename, fault)
        THEN /\ reply(404, Detail("File not found"), {"get_billing_service", "exists"})
             /\ UNCHANGED <<env, store, services, bucket>>
        ELSE \E r \in {S3DeleteFile(bucket, filename, fault)} :
               IF ~r.ok
               THEN /\ reply(404, Detail("File not found"),
                             {"get_billing_service", "exists", "delete"})
                    /\ UNCHANGED <<env, store, services, bucket>>
               ELSE /\ bucket' = r.bucket
                    /\ reply(200, [success |-> TRUE, message |-> "File deleted"],
                             {"get_billing_service", "exists", "delete", "clear_loaded_files"})
                    /\ UNCHANGED <<env, store, services>>

\* a cleanup that clears the identity's key as well
CleanupSessionClearingKey(username) ==
    LET cleared == IF username \in DOMAIN services
                   THEN [services EXCEPT ![username].agent = InvalidateCache(@)]
                   ELSE services
        reply(status, body, calls) ==
            response' = Resp("cleanup_session", username, None, status, body, EmptyDict, calls)
    IN  IF Falsy(username)
        THEN /\ reply(400, Detail("Username is required"), {})
             /\ UNCHANGED <<env, store, services, bucket>>
        ELSE /\ services' = CleanupUserSession(cleared, username)
             /\ store' = StoreDelete(store, username)
             /\ reply(200, [success |-> TRUE, message |-> "Session cleaned up for user"],
                      IF username \in DOMAIN services
                          THEN {"_invalidate_cache", "cleanup_user_session"}
                          ELSE {"cleanup_user_session"})
             /\ UNCHANGED <<env, bucket>>

\* POST /cleanup-session
CleanupSession(username) ==
    LET cleared == IF username \in DOMAIN services
                   THEN [services EXCEPT ![username].agent = InvalidateCache(@)]
                   ELSE services
        reply(status, body, calls) ==
            response' = Resp("cleanup_session", username, None, status, body, EmptyDict, calls)
    IN  IF Falsy(username)
        THEN /\ reply(400, Detail("Username is required"), {})
             /\ UNCHANGED <<env, store, services, bucket>>
        ELSE /\ services' = CleanupUserSession(cleared, username)
             /\ reply(200, [success |-> TRUE, message |-> "Session cleaned up for user"],
                      IF username \in DOMAIN services
                          THEN {"_invalidate_cache", "cleanup_user_session"}
                          ELSE {"cleanup_user_session"})
             /\ UNCHANGED <<env, store, bucket>>

(***************************************************************************)
(* The HTTP specification                                                  *)
(***************************************************************************)

NoResponse == Resp("none", None, None, 0, EmptyDict, EmptyDict, {})

\* what a method call returned: the call and its arguments (the file name or
\* filter, the workbook content, the API key), the failure the environment
\* injected, whether the call raised, the string or the dict it returned, and
\* for query the executor it obtained and whether the call built it
AgentReturn(op, file_name, content, api_key, fault, raised, value, result, executor, built) ==
    [op |-> op, file_name |-> file_name, content |-> content, api_key |-> api_key,
     fault |-> fault, raised |-> raised, value |-> value, result |-> result,
     executor |-> executor, built |-> built]

NoAgentReturn ==
    AgentReturn("none", None, None, None, "none", FALSE, None, EmptyDict, Nothing, FALSE)

\* what the rate limiting middleware did with a request: the client, the path,
\* whether the request went on to its route, the status of a rejection, and
\* how many recorded requests of the client the check dropped as expired
RateResponse(client_ip, path, passed, status, expired) ==
    [client_ip |-> client_ip, path |-> path, passed |-> passed, status |-> status,
     expired |-> expired]

NoRateResponse == RateResponse(None, None, FALSE, 0, 0)

\* no upload seen yet
NoUpload == [size |-> 0, fault |-> "none"]

\* no reasoning step captured, no transcript extracted
NoExtraction == [steps |-> <<>>, reasoning |-> "", done |-> FALSE]


\* the environments of the HTTP specification: with and without S3
\* credentials; no default OPENAI_API_KEY, no local data directory
HttpEnvironments ==
    [s3_configured : BOOLEAN, OPENAI_API_KEY : {None}, data_dir_exists : {FALSE}]

Init ==
    /\ env \in HttpEnvironments
    /\ store = EmptyDict
    /\ services = EmptyDict
    /\ bucket = EmptyDict
    /\ response = NoResponse
    /\ agent = NewAgent
    /\ agentResp = NoAgentReturn
    /\ rate_limit_storage = EmptyDict
    /\ now = 0
    /\ rateResp = NoRateResponse
    /\ upload = NoUpload
    /\ extraction = NoExtraction
    /\ tasks = EmptyDict
    /\ running = "none"

\* the keys each identity submits: alice every key, bob the one key alice may
\* hold as well
KeysOf(u) == IF u = "bob" THEN {KeyA} ELSE ValidKeys \cup BadKeys

DoSetApiKey ==
    /\ \E u \in Usernames \cup {""} : \E k \in KeysOf(u) : SetApiKey(u, k)
    /\ upload' = NoUpload
    /\ UNCHANGED otherVars
DoRemoveApiKey ==
    /\ \E u \in Usernames \cup {""} : RemoveApiKey(u)
    /\ upload' = NoUpload
    /\ UNCHANGED otherVars
DoGetApiKeyStatus ==
    /\ \E u \in Usernames \cup {""} : GetApiKeyStatus(u)
    /\ upload' = NoUpload
    /\ UNCHANGED otherVars
DoQuery ==
    /\ \E u \in Usernames, f \in QueryFileNames, fault \in QueryFaults,
          elapsed \in 0..MaxElapsed :
           Query(u, f, fault, elapsed)
    /\ upload' = NoUpload
    /\ UNCHANGED otherVars
DoUpload ==
    /\ \E f \in UploadFileNames, c \in Payloads, u \in Usernames \cup {None},
          fault \in S3Faults :
           UploadExcelFile(f, c, u, fault)
    /\ upload' = NoUpload
    /\ UNCHANGED otherVars
DoListFiles ==
    /\ \E u \in Usernames \cup {None}, fault \in S3Faults : ListFiles(u, fault)
    /\ upload' = NoUpload
    /\ UNCHANGED otherVars
DoCleanupSession ==
    /\ \E u \in Usernames \cup {""} : CleanupSession(u)
    /\ upload' = NoUpload
    /\ UNCHANGED otherVars

\* an upload whose payload size and injected failure are kept for inspection
DoUploadRecorded ==
    /\ \E f \in UploadFileNames, c \in Payloads, u \in Usernames \cup {None},
          fault \in S3Faults :
           /\ UploadExcelFile(f, c, u, fault)
           /\ upload' = [size |-> c.size, fault |-> fault]
    /\ UNCHANGED <<agentVars, rateVars, extraction, taskVars>>

\* the workbooks a deletion names: one that uploads store, one never stored
DeleteFileNames == {"aug.xlsx", "sep.xlsx"}

DoDeleteFile ==
    /\ \E f \in DeleteFileNames, fault \in S3Faults :
         /\ DeleteFile(f, fault)
         /\ upload' = [size |-> 0, fault |-> fault]
    /\ UNCHANGED <<agentVars, rateVars, extraction, taskVars>>

NextDelete == DoUploadRecorded \/ DoDeleteFile

\* uploads and deletions of workbooks
SpecDelete == Init /\ [][NextDelete]_vars

Next ==
    \/ DoSetApiKey
    \/ DoRemoveApiKey
    \/ DoGetApiKeyStatus
    \/ DoQuery
    \/ DoUpload
    \/ DoListFiles
    \/ DoCleanupSession

Spec == Init /\ [][Next]_vars

\* sequences of uploads with their inputs on record
SpecUpload == Init /\ [][DoUploadRecorded]_vars

NextUploadFault == DoSetApiKey \/ DoQuery \/ DoUploadRecorded

\* uploads with their inputs on record, among the requests that cache executors
SpecUploadFault == Init /\ [][NextUploadFault]_vars

(***************************************************************************)
(* The BillingAgent specification: one BillingAgent and its methods        *)
(***************************************************************************)

\* workbooks handed to load_excel_file: two versions of aug.xlsx, a workbook
\* whose name differs from it in case and extension, and an unreadable one
AgentLoads ==
    {[filename |-> "aug.xlsx", content |-> "v1"],
     [filename |-> "aug.xlsx", content |-> "v2"],
     [filename |-> "AUG.xls", content |-> "v1"],
     [filename |-> "AUG.xls", content |-> Corrupt]}

\* file filters and credentials of the queries: no filter, one that matches
\* both workbooks, one that matches none; no key, and two keys of equal MD5 prefix
AgentFilters == {None, "aug", "sep"}
AgentKeys == {None, KeyA, KeyC}
AgentFaults == {"none", "build", "invoke"}

AgentEnvironments ==
    [s3_configured : {TRUE}, OPENAI_API_KEY : {None, KeyB}, data_dir_exists : BOOLEAN]

InitAgent ==
    /\ env \in AgentEnvironments
    /\ store = EmptyDict
    /\ services = EmptyDict
    /\ bucket = EmptyDict
    /\ response = NoResponse
    /\ agent = NewAgent
    /\ agentResp = NoAgentReturn
    /\ rate_limit_storage = EmptyDict
    /\ now = 0
    /\ rateResp = NoRateResponse
    /\ upload = NoUpload
    /\ extraction = NoExtraction
    /\ tasks = EmptyDict
    /\ running = "none"

CallLoadExcelFile ==
    /\ \E w \in AgentLoads :
         \E r \in {LoadExcelFile(agent, w.content, w.filename)} :
           /\ agent' = r.agent
           /\ agentResp' = AgentReturn("load_excel_file", w.filename, w.content, None, "none",
                                       r.raised,
                                       r.value, EmptyDict, Nothing, FALSE)
    /\ UNCHANGED <<httpVars, rateVars, upload, extraction, taskVars>>

CallQuery ==
    /\ \E f \in AgentFilters, k \in AgentKeys, fault \in AgentFaults,
          elapsed \in 0..MaxElapsed :
         \E q \in {AgentQuery(agent, f, k, env.data_dir_exists, env.OPENAI_API_KEY,
                              fault # "build", fault # "invoke", elapsed)} :
           /\ agent' = q.agent
           /\ agentResp' = AgentReturn("query", f, None, k, fault, FALSE, None, q.result,
                                       q.executor,
                                       q.built)
    /\ UNCHANGED <<httpVars, rateVars, upload, extraction, taskVars>>

CallInvalidateSessionCache ==
    /\ \E k \in AgentKeys :
         /\ agent' = InvalidateSessionCache(agent, k)
         /\ agentResp' = AgentReturn("invalidate_session_cache", None, None, k, "none", FALSE, None,
                                     EmptyDict,
                                     Nothing, FALSE)
    /\ UNCHANGED <<httpVars, rateVars, upload, extraction, taskVars>>

CallInvalidateCache ==
    /\ agent' = InvalidateCache(agent)
    /\ agentResp' = AgentReturn("_invalidate_cache", None, None, None, "none", FALSE, None,
                                EmptyDict,
                                Nothing, FALSE)
    /\ UNCHANGED <<httpVars, rateVars, upload, extraction, taskVars>>

CallClearLoadedFiles ==
    /\ agent' = ClearLoadedFiles(agent)
    /\ agentResp' = AgentReturn("clear_loaded_files", None, None, None, "none", FALSE, None,
                                EmptyDict,
                                Nothing, FALSE)
    /\ UNCHANGED <<httpVars, rateVars, upload, extraction, taskVars>>

CallGetCacheInfo ==
    /\ agent' = agent
    /\ agentResp' = AgentReturn("get_cache_info", None, None, None, "none", FALSE, None,
                                GetCacheInfo(agent),
                                Nothing, FALSE)
    /\ UNCHANGED <<httpVars, rateVars, upload, extraction, taskVars>>

NextAgent ==
    \/ CallLoadExcelFile
    \/ CallQuery
    \/ CallInvalidateSessionCache
    \/ CallInvalidateCache
    \/ CallClearLoadedFiles
    \/ CallGetCacheInfo

SpecAgent == InitAgent /\ [][NextAgent]_vars

(***************************************************************************)
(* The rate limiter (app/main.py)                                          *)
(***************************************************************************)

\* check_rate_limit's defaults
MAX_REQUESTS == 30
WINDOW == 60

\* clients, request paths, and how far the clock runs: MaxTicks windows
ClientIps == {"10.0.0.1", "10.0.0.2"}
Paths == {"/health", "/", "/api/v1/billing/query"}
MaxTicks == 2

\* rate_limit_storage[client_ip] of a defaultdict(list)
Requests(storage, client_ip) ==
    IF client_ip \in DOMAIN storage THEN storage[client_ip] ELSE <<>>

\* a pruning step that keeps a request for the whole of its last second
RECURSIVE PruneInclusive(_, _)
PruneInclusive(list, time) ==
    IF list = <<>> THEN <<>>
    ELSE IF time - Head(list) <= WINDOW
         THEN <<Head(list)>> \o PruneInclusive(Tail(list), time)
         ELSE PruneInclusive(Tail(list), time)

\* the pruning step of check_rate_limit: the request times inside the window
RECURSIVE Prune(_, _)
Prune(list, time) ==
    IF list = <<>> THEN <<>>
    ELSE IF time - Head(list) < WINDOW
         THEN <<Head(list)>> \o Prune(Tail(list), time)
         ELSE Prune(Tail(list), time)

\* a check_rate_limit that records the request before it checks the limit
CheckRateLimitRecordingAll(storage, client_ip, time) ==
    LET pruned == Prune(Requests(storage, client_ip), time)
        expired == Len(Requests(storage, client_ip)) - Len(pruned)
    IN  [allowed |-> Len(pruned) < MAX_REQUESTS,
         storage |-> Put(storage, client_ip, Append(pruned, time)),
         expired |-> expired]

\* check_rate_limit(client_ip): [allowed, storage, expired]
CheckRateLimit(storage, client_ip, time) ==
    LET pruned == Prune(Requests(storage, client_ip), time)
        expired == Len(Requests(storage, client_ip)) - Len(pruned)
    IN  IF Len(pruned) >= MAX_REQUESTS
        THEN [allowed |-> FALSE, storage |-> Put(storage, client_ip, pruned),
              expired |-> expired]
        ELSE [allowed |-> TRUE,
              storage |-> Put(storage, client_ip, Append(pruned, time)),
              expired |-> expired]

\* a middleware that limits the health check and the root path as well
RateLimitMiddlewareNoSkip(client_ip, path) ==
    \E r \in {CheckRateLimit(rate_limit_storage, client_ip, now)} :
         /\ rate_limit_storage' = r.storage
         /\ rateResp' = IF r.allowed
                        THEN RateResponse(client_ip, path, TRUE, 200, r.expired)
                        ELSE RateResponse(client_ip, path, FALSE, 429, r.expired)
         /\ UNCHANGED now

\* rate_limit_middleware
RateLimitMiddleware(client_ip, path) ==
    IF path \in {"/health", "/"}
    THEN /\ rateResp' = RateResponse(client_ip, path, TRUE, 200, 0)
         /\ UNCHANGED <<rate_limit_storage, now>>
    ELSE \E r \in {CheckRateLimit(rate_limit_storage, client_ip, now)} :
         /\ rate_limit_storage' = r.storage
         /\ rateResp' = IF r.allowed
                        THEN RateResponse(client_ip, path, TRUE, 200, r.expired)
                        ELSE RateResponse(client_ip, path, FALSE, 429, r.expired)
         /\ UNCHANGED now

Request ==
    /\ \E ip \in ClientIps, path \in Paths : RateLimitMiddleware(ip, path)
    /\ UNCHANGED <<httpVars, agentVars, upload, extraction, taskVars>>

\* the clock advances by one window
Tick ==
    /\ now + WINDOW <= MaxTicks * WINDOW
    /\ now' = now + WINDOW
    /\ UNCHANGED <<rate_limit_storage, rateResp, httpVars, agentVars, upload, extraction, taskVars>>

NextRate == Request \/ Tick

InitRate == Init /\ env.s3_configured

SpecRate == InitRate /\ [][NextRate]_vars

(***************************************************************************)
(* Concurrent requests at the rate limiter.  The application runs on one   *)
(* asyncio event loop: a coroutine keeps the loop until it awaits          *)
(* something that is not ready, and rate_limit_middleware awaits only      *)
(* call_next.                                                              *)
(***************************************************************************)

\* the requests that may be in flight together
Tasks == {"t1", "t2"}

\* a check_rate_limit that gives up the event loop between its check and
\* its append
CheckRateLimitSuspendsBeforeAppend(pc) == pc = "append"

\* whether check_rate_limit gives up the event loop before the statement at
\* pc: it is a plain function without an await
CheckRateLimitSuspends(pc) == FALSE

\* a request to a limited path reaches the server
RateTaskArrive ==
    /\ \E t \in Tasks \ DOMAIN tasks, ip \in ClientIps :
         tasks' = Put(tasks, t, [pc |-> "arrived", client_ip |-> ip, now |-> 0])
    /\ UNCHANGED <<running, rateVars, httpVars, agentVars, upload, extraction>>

\* the event loop runs the next statements of a request's middleware call:
\* the call of check_rate_limit with its reading of the clock, the pruning
\* assignment, the check of the limit, the append; a request that was
\* admitted or rejected leaves the middleware (await call_next, or the 429)
RateTaskStep ==
    \E t \in DOMAIN tasks :
      LET task == tasks[t]
          ip == task.client_ip
          list == Requests(rate_limit_storage, ip)
          goto(pc) ==
              /\ tasks' = [tasks EXCEPT ![t].pc = pc]
              /\ running' = IF CheckRateLimitSuspends(pc) THEN "none" ELSE t
          leave(passed, status) ==
              /\ tasks' = Without(tasks, {t})
              /\ running' = "none"
              /\ rateResp' = RateResponse(ip, "/api/v1/billing/query", passed, status, 0)
      IN  /\ running \in {"none", t}
          /\ (task.pc = "arrived") => running = "none"
          /\ CASE task.pc = "arrived" ->
                   /\ tasks' = [tasks EXCEPT ![t].pc = "prune", ![t].now = now]
                   /\ running' = IF CheckRateLimitSuspends("prune") THEN "none" ELSE t
                   /\ UNCHANGED <<rate_limit_storage, rateResp>>
               [] task.pc = "prune" ->
                   /\ rate_limit_storage' = Put(rate_limit_storage, ip, Prune(list, task.now))
                   /\ goto("check")
                   /\ UNCHANGED rateResp
               [] task.pc = "check" ->
                   IF Len(list) >= MAX_REQUESTS
                       THEN leave(FALSE, 429) /\ UNCHANGED rate_limit_storage
                       ELSE goto("append") /\ UNCHANGED <<rate_limit_storage, rateResp>>
               [] task.pc = "append" ->
                   /\ rate_limit_storage' = Put(rate_limit_storage, ip, Append(list, task.now))
                   /\ leave(TRUE, 200)
          /\ UNCHANGED <<now, httpVars, agentVars, upload, extraction>>

NextRateTasks == RateTaskArrive \/ RateTaskStep \/ Tick

SpecRateTasks == InitRate /\ [][NextRateTasks]_vars

(***************************************************************************)
(* Concurrent queries.  query_billing_data, process_query and              *)
(* BillingAgent.query are coroutines of the same event loop; the executor  *)
(* is built with max_iterations=10 and max_execution_time=60 and run with  *)
(* the blocking invoke.                                                    *)
(***************************************************************************)

\* the ceilings the AgentExecutor is built with
max_iterations == 10
max_execution_time == 60

\* how long one reasoning iteration (a model call and a tool call) may take,
\* in seconds; the ceilings are looked at between iterations only
IterationSeconds == {0, 45}

\* files a concurrent query may name
TaskFileNames == {"aug.xlsx", "sep.xlsx", None}

\* an executor without ceilings
ShouldContinueAlways(iterations, time_elapsed) == TRUE

\* whether the executor starts another iteration
ShouldContinue(iterations, time_elapsed) ==
    iterations < max_iterations /\ time_elapsed < max_execution_time

\* a process_query whose await of agent.query hands the event loop to other
\* requests
ProcessQuerySuspendsAtQuery(pc) == pc = "query"

\* whether process_query gives up the event loop before the statement at pc:
\* its one await is of BillingAgent.query, a coroutine that awaits nothing
ProcessQuerySuspends(pc) == FALSE

\* a running service: a session with a key, two workbooks in the bucket
InitQueries ==
    /\ env \in {e \in HttpEnvironments : e.s3_configured}
    /\ store = StoreSet(EmptyDict, "alice", KeyA)
    /\ services = EmptyDict
    /\ bucket = Put(Put(EmptyDict, "aug.xlsx", "v1"), "sep.xlsx", "v2")
    /\ response = NoResponse
    /\ agent = NewAgent
    /\ agentResp = NoAgentReturn
    /\ rate_limit_storage = EmptyDict
    /\ now = 0
    /\ rateResp = NoRateResponse
    /\ upload = NoUpload
    /\ extraction = NoExtraction
    /\ tasks = EmptyDict
    /\ running = "none"

\* a POST /query reaches the server
QueryTaskArrive ==
    /\ \E t \in Tasks \ DOMAIN tasks, u \in Usernames, f \in TaskFileNames :
         tasks' = Put(tasks, t, [pc |-> "arrived", username |-> u, file_name |-> f,
                                 loaded |-> FALSE, iterations |-> 0, elapsed |-> 0,
                                 result |-> ServiceResult("", "")])
    /\ UNCHANGED <<running, httpVars, agentVars, rateVars, upload, extraction>>

\* the event loop runs the next statements of a query: the handler up to
\* process_query, _ensure_file_loaded, BillingAgent.query up to the executor,
\* one iteration of the executor, _unload_files with the return
QueryTaskStep ==
    \E t \in DOMAIN tasks :
      LET task == tasks[t]
          username == task.username
          file_name == task.file_name
          api_key == StoreGet(store, username)
          goto(pc, changed) ==
              /\ tasks' = Put(tasks, t, [changed EXCEPT !.pc = pc])
              /\ running' = IF ProcessQuerySuspends(pc) THEN "none" ELSE t
              /\ UNCHANGED response
          leave(status, body, result, calls) ==
              /\ tasks' = Without(tasks, {t})
              /\ running' = "none"
              /\ response' = Resp("query", username, file_name, status, body, result, calls)
          return(result, calls) ==
              leave(200,
                    [success |-> TRUE, answer |-> result.answer,
                     reasoning |-> result.reasoning,
                     execution_time |-> result.execution_time,
                     using_custom_key |-> TRUE, username |-> username],
                    result, calls)
      IN  /\ running \in {"none", t}
          /\ (task.pc = "arrived") => running = "none"
          /\ CASE task.pc = "arrived" ->
                   IF ~HasUser(store, username)
                   THEN /\ leave(401, Detail("User not found. Please set up your session first."),
                                 EmptyDict, {})
                        /\ UNCHANGED services
                   ELSE IF Falsy(api_key)
                   THEN /\ leave(401, Detail("No API key set for this user. Please set your API key first."),
                                 EmptyDict, {})
                        /\ UNCHANGED services
                   ELSE IF ~CanBuildService(env, services, username)
                   THEN /\ leave(500, Detail("Error processing query"), EmptyDict,
                                 {"get_billing_service"})
                        /\ UNCHANGED services
                   ELSE /\ services' = GetBillingService(services, username)
                        /\ IF Falsy(file_name)
                           THEN return(ServiceResult("Please select a specific file to analyze.",
                                                     "No file specified"),
                                       {"get_billing_service", "process_query"})
                           ELSE goto("ensure", task)
               [] task.pc = "ensure" ->
                   \E fault \in S3Faults :
                     \E loaded \in {EnsureFileLoaded(services[username], file_name, bucket,
                                                     S3Outcome(fault))} :
                       IF loaded.raised
                       THEN /\ services' = [services EXCEPT
                                              ![username] = UnloadFiles(loaded.service)]
                            /\ return(ServiceResult("Error: failed to load " \o file_name, ""),
                                      loaded.calls \cup {"unload"})
                       ELSE IF Falsy(loaded.value)
                       THEN /\ services' = [services EXCEPT ![username] = loaded.service]
                            /\ return(ServiceResult("File not found or failed to load.",
                                                    "File loading failed"),
                                      loaded.calls)
                       ELSE /\ services' = [services EXCEPT ![username] = loaded.service]
                            /\ goto("query", [task EXCEPT !.loaded = TRUE])
               [] task.pc = "query" ->
                   \E build_ok \in BOOLEAN :
                     \E q \in {AgentQuery(services[username].agent, file_name, api_key,
                                          env.data_dir_exists, env.OPENAI_API_KEY,
                                          build_ok, TRUE, 0)} :
                       /\ services' = [services EXCEPT ![username].agent = q.agent]
                       /\ IF q.executor = Nothing
                          THEN goto("unload", [task EXCEPT !.result = q.result])
                          ELSE goto("invoke", [task EXCEPT !.result = q.result])
               [] task.pc = "invoke" ->
                   /\ UNCHANGED services
                   /\ IF ShouldContinue(task.iterations, task.elapsed)
                      THEN \E d \in IterationSeconds, step \in {"action", "finish", "raise"} :
                             LET elapsed == task.elapsed + d
                             IN  CASE step = "action" ->
                                      goto("invoke", [task EXCEPT !.iterations = @ + 1,
                                                                  !.elapsed = elapsed])
                                   [] step = "finish" ->
                                      goto("unload", [task EXCEPT !.elapsed = elapsed,
                                                                  !.result.execution_time = elapsed])
                                   [] step = "raise" ->
                                      goto("unload",
                                           [task EXCEPT !.elapsed = elapsed,
                                                        !.result = QueryError("executor invocation failed",
                                                                              elapsed)])
                      ELSE goto("unload",
                                [task EXCEPT !.result.answer =
                                               "Agent stopped due to iteration limit or time limit.",
                                             !.result.execution_time = task.elapsed])
               [] task.pc = "unload" ->
                   /\ services' = [services EXCEPT ![username] = UnloadFiles(@)]
                   /\ return(task.result,
                             {"get_billing_service", "process_query", "agent.query", "unload"})
          /\ UNCHANGED <<env, store, bucket, agentVars, rateVars, upload, extraction>>

NextQueries == QueryTaskArrive \/ QueryTaskStep

\* queries in any interleaving the event loop allows
SpecQueries == InitQueries /\ [][NextQueries]_vars

\* the same, with every started call of the model and of a tool returning or
\* raising, so that the loop goes on running the request it is in
SpecHarness == InitQueries /\ [][NextQueries]_vars /\ WF_vars(QueryTaskStep)

(***************************************************************************)
(* The reasoning transcript of BillingAgent.query                          *)
(***************************************************************************)

\* the most reasoning steps one invocation captures
MaxSteps == 3

\* AgentAction.log texts: thought, action and action input; a trimmed-away
\* indentation; a log without any thought or action line; an empty log
StepLogs ==
    { "Thought: sum\nAction: repl\nAction Input: df.sum()",
      "  Thought: done \n",
      "Final Answer: 42",
      "" }

\* the test on a trimmed line
KeepLine(line) == StartsWith(line, "Thought:") \/ StartsWith(line, "Action:")

RECURSIVE ScanLines(_, _)
\* the inner loop: each kept line, trimmed, followed by a newline
ScanLines(lines, reasoning_text) ==
    IF lines = <<>>
        THEN reasoning_text
        ELSE LET line == Strip(Head(lines))
             IN  ScanLines(Tail(lines),
                           IF KeepLine(line)
                               THEN reasoning_text \o line \o "\n"
                               ELSE reasoning_text)

RECURSIVE ScanSteps(_, _)
\* the outer loop: a step with a non-empty log adds its kept lines and a newline
ScanSteps(steps, reasoning_text) ==
    IF steps = <<>>
        THEN reasoning_text
        ELSE LET log == Head(steps).log
             IN  ScanSteps(Tail(steps),
                           IF Falsy(log)
                               THEN reasoning_text
                               ELSE ScanLines(Split(log, "\n"), reasoning_text) \o "\n")

\* the "reasoning" entry of query's result
ExtractReasoning(intermediate_steps) == Strip(ScanSteps(intermediate_steps, ""))

\* the executor captures one more step: (AgentAction, observation)
CaptureStep ==
    /\ ~extraction.done
    /\ Len(extraction.steps) < MaxSteps
    /\ \E log \in StepLogs :
         extraction' = [extraction EXCEPT
                          !.steps = Append(@, [log |-> log, observation |-> "obs"])]
    /\ UNCHANGED <<httpVars, agentVars, rateVars, upload, taskVars>>

\* query builds the transcript of the captured steps
ExtractTranscript ==
    /\ ~extraction.done
    /\ extraction' = [extraction EXCEPT
                        !.reasoning = ExtractReasoning(extraction.steps),
                        !.done = TRUE]
    /\ UNCHANGED <<httpVars, agentVars, rateVars, upload, taskVars>>

NextTranscript == CaptureStep \/ ExtractTranscript

SpecTranscript == Init /\ [][NextTranscript]_vars

(***************************************************************************)
(* Properties                                                              *)
(***************************************************************************)

\* the executor a user's service caches for the user's key and a file name
CachedExecutor(username, file_name) ==
    services[username].agent.agent_cache[GetCacheKey(StoreGet(store, username), file_name)]

\* C1: a query that ran an executor ran one whose tools were built from the
\* content the workbook has now: after the workbook was replaced by a new
\* upload, never the executor an earlier query cached from the old content.
\* (Spec; violated: alice queries aug.xlsx, the workbook is uploaded again
\* with other content and without a username, alice queries it again.)
C1_QueryRunsOnCurrentContent ==
    (/\ response.op = "query"
     /\ response.status = 200
     /\ "agent.query" \in response.calls
     /\ response.result.answer = "output")
    => \A tool \in CachedExecutor(response.username, response.arg).tools :
         tool.dataframe = bucket[response.arg]

\* C2: a load_excel_file that parsed its stream leaves the table map with the
\* new table under "Excel Agent - " + stem(filename), in place of any earlier
\* table of that name, with every table of another name as it was, and leaves
\* the executor cache empty.  (SpecAgent)
C2_LoadStoresTableAndEmptiesCache ==
    [][(agentResp'.op = "load_excel_file" /\ ~agentResp'.raised)
       => LET tool_name == "Excel Agent - " \o Stem(agentResp'.file_name)
          IN  /\ agentResp'.value = tool_name
              /\ DOMAIN agent'.loaded_files = DOMAIN agent.loaded_files \cup {tool_name}
              /\ agent'.loaded_files[tool_name].file_path = agentResp'.file_name
              /\ agent'.loaded_files[tool_name].dataframe = agentResp'.content
              /\ \A name \in DOMAIN agent.loaded_files \ {tool_name} :
                   agent'.loaded_files[name] = agent.loaded_files[name]
              /\ agent'.agent_cache = EmptyDict]_vars

\* C2 witness: a workbook was loaded over its earlier version while a table of
\* another name stayed loaded
C2_Witness ==
    /\ agentResp.op = "load_excel_file"
    /\ ~agentResp.raised
    /\ agentResp.content = "v2"
    /\ Cardinality(DOMAIN agent.loaded_files) = 2
    /\ agent.agent_cache = EmptyDict

\* C3: within one BillingAgent a query never obtains an executor that a query
\* with a different credential built: the executor a query with an API key
\* obtained is bound to that key.  (SpecAgent; violated by two keys whose MD5
\* digests share their first eight hex digits.)
C3_ExecutorBoundToCredential ==
    (/\ agentResp.op = "query"
     /\ agentResp.executor # Nothing
     /\ ~Falsy(agentResp.api_key))
    => The(agentResp.executor).llm.openai_api_key = agentResp.api_key

\* the executor keys a user's service caches; none without a service
CachedKeys(svcs, username) ==
    IF username \in DOMAIN svcs THEN DOMAIN svcs[username].agent.agent_cache ELSE {}

\* C4: a remove-api-key request that removed the key a user held leaves no
\* executor cached under that key in the user's service, and leaves every other
\* user's service, with its cached executor keys, as it was.  (Spec)
C4_RemoveFlushesOnlyOwnExecutors ==
    [][(/\ response'.op = "remove_api_key"
        /\ response'.status = 200
        /\ HasApiKey(store, response'.username))
       => LET a == response'.username
              key_hash == Md5Prefix(store[a].api_key)
          IN  /\ \A ck \in CachedKeys(services', a) : ~StartsWith(ck, key_hash)
              /\ \A b \in Usernames \ {a} :
                   /\ CachedKeys(services', b) = CachedKeys(services, b)
                   /\ (b \in DOMAIN services <=> b \in DOMAIN services')
                   /\ (b \in DOMAIN services => services'[b] = services[b])]_vars

\* C4 witness: alice's key was removed and her service holds no executor, while
\* bob's service still holds one
C4_Witness ==
    /\ response.op = "remove_api_key"
    /\ response.status = 200
    /\ response.username = "alice"
    /\ "get_billing_service" \in response.calls
    /\ CachedKeys(services, "alice") = {}
    /\ CachedKeys(services, "bob") # {}

\* C5: a query of a user without a record, or whose record holds no key, gets
\* 401 and reaches neither a service, nor the bucket, nor an agent; a
\* remove-api-key that removed a key leaves the record without a key, and a
\* record without a key gets one only by a set-api-key of that user that
\* returned 200.  (Spec)
C5_QueryNeedsKey ==
    [][/\ (/\ response'.op = "query"
           /\ (\/ response'.username \notin DOMAIN store
               \/ store[response'.username].api_key = None))
          => /\ response'.status = 401
             /\ response'.calls = {}
             /\ response'.result = EmptyDict
             /\ services' = services
             /\ bucket' = bucket
             /\ store' = store
       /\ (/\ response'.op = "remove_api_key"
           /\ response'.status = 200
           /\ response'.username \in DOMAIN store)
          => /\ response'.username \in DOMAIN store'
             /\ store'[response'.username].api_key = None
       /\ \A u \in Usernames :
            (/\ (u \notin DOMAIN store \/ store[u].api_key = None)
             /\ u \in DOMAIN store'
             /\ store'[u].api_key # None)
            => /\ response'.op = "set_api_key"
               /\ response'.username = u
               /\ response'.status = 200]_vars

\* C5 witness: a user whose key was removed, and who has a service, queried a
\* workbook the bucket holds and got 401
C5_Witness ==
    /\ response.op = "query"
    /\ response.status = 401
    /\ response.username \in DOMAIN store
    /\ store[response.username].api_key = None
    /\ response.username \in DOMAIN services
    /\ response.arg \in DOMAIN bucket

\* C6: a set-api-key request whose key does not start with "sk-" or is shorter
\* than 20 characters is rejected, and the session store and the service
\* registry, with every executor cache in it, are as they were.  (Spec)
C6_BadKeyRejected ==
    [][(/\ response'.op = "set_api_key"
        /\ (\/ SubSeq(response'.arg, 1, 3) # "sk-"
            \/ Len(response'.arg) < 20))
       => /\ response'.status \in {400, 422}
          /\ store' = store
          /\ services' = services]_vars

\* C6 witness: a malformed key was rejected for a user who holds a key and
\* whose service caches an executor
C6_Witness ==
    /\ response.op = "set_api_key"
    /\ response.status = 422
    /\ response.arg = "sk-short"
    /\ HasApiKey(store, response.username)
    /\ CachedKeys(services, response.username) # {}

\* C7: a set-api-key that returned 200 reports is_new_user = true for a user
\* without a record and the recorded is_new_user for a user with one; the
\* record takes the reported value, and no request changes a record's
\* is_new_user or removes a record.  (Spec)
C7_IsNewUserStable ==
    [][/\ (response'.op = "set_api_key" /\ response'.status = 200)
          => LET u == response'.username
             IN  /\ response'.body.is_new_user =
                      (IF u \in DOMAIN store THEN store[u].is_new_user ELSE TRUE)
                 /\ u \in DOMAIN store'
                 /\ store'[u].is_new_user = response'.body.is_new_user
       /\ \A u \in DOMAIN store :
            /\ u \in DOMAIN store'
            /\ store'[u].is_new_user = store[u].is_new_user]_vars

\* C7 witness: a set-api-key of a user who already held a key returned 200
C7_Witness ==
    /\ response.op = "set_api_key"
    /\ response.status = 200
    /\ "get_billing_service" \in response.calls
    /\ response.body.is_new_user

\* the agent of a user's service as a request finds it: a new one when
\* the user has no service yet
AgentOf(svcs, username) ==
    IF username \in DOMAIN svcs THEN svcs[username].agent ELSE NewAgent

\* C9: when process_query ran with a file name, whatever its result, the table
\* map of the service's agent is empty afterwards and every executor key the
\* agent cached before the call is still cached.  (Spec)
C9_TablesReleasedCacheKept ==
    [][(/\ response'.op = "query"
        /\ "process_query" \in response'.calls
        /\ response'.arg # None
        /\ response'.arg # "")
       => LET u == response'.username
          IN  /\ DOMAIN services'[u].agent.loaded_files = {}
              /\ CachedKeys(services, u) \subseteq CachedKeys(services', u)
              /\ \A ck \in CachedKeys(services, u) :
                   services'[u].agent.agent_cache[ck] = services[u].agent.agent_cache[ck]]_vars

\* C9 witness: a query read the workbook into the table map and ran an
\* executor; afterwards the table map is empty and the executor is cached
C9_Witness ==
    /\ response.op = "query"
    /\ "read_excel" \in response.calls
    /\ "agent.query" \in response.calls
    /\ response.result.tools_used = 1
    /\ DOMAIN services[response.username].agent.loaded_files = {}
    /\ CachedKeys(services, response.username) # {}

\* C10: process_query without a file name (None or "") returns the guidance
\* result, with execution time 0 and 0 tools used, downloads nothing from the
\* bucket, loads no table and leaves the executor cache as it was.  (Spec)
C10_NoFileNameGuidance ==
    [][(/\ response'.op = "query"
        /\ "process_query" \in response'.calls
        /\ (response'.arg = None \/ response'.arg = ""))
       => LET u == response'.username
          IN  /\ response'.result =
                   [answer |-> "Please select a specific file to analyze.",
                    reasoning |-> "No file specified",
                    execution_time |-> 0, tools_used |-> 0]
              /\ response'.calls \cap {"download", "read_excel", "agent.query"} = {}
              /\ services'[u].agent = AgentOf(services, u)]_vars

\* C10 witness: a query with an empty file name got the guidance result from a
\* service that caches an executor
C10_Witness ==
    /\ response.op = "query"
    /\ response.arg = ""
    /\ response.status = 200
    /\ response.result.reasoning = "No file specified"
    /\ CachedKeys(services, response.username) # {}

\* the requests of a client the limiter has on record at most a window ago
RecentRequests(client_ip) ==
    IF client_ip \in DOMAIN rate_limit_storage
    THEN {i \in 1..Len(rate_limit_storage[client_ip]) :
            now - rate_limit_storage[client_ip][i] < 60}
    ELSE {}

\* C8: a request to a path that is not exempt passes when fewer than 30
\* requests of its client IP were admitted in the 60 seconds before it, and is
\* rejected with 429 when 30 were: the limiter admits 30 requests in a window,
\* rejects the 31st, and admits the client again once those 30 are a window
\* old.  (SpecRate)
C8_ThirtyPerWindow ==
    [][(now' = now /\ rateResp'.path \notin {None, "/", "/health"})
       => LET n == Cardinality(RecentRequests(rateResp'.client_ip))
          IN  /\ n <= 30
              /\ n < 30 => (rateResp'.passed /\ rateResp'.status # 429)
              /\ n = 30 => (~rateResp'.passed /\ rateResp'.status = 429)]_vars

\* C8 witness: a client whose last 30 requests are a window old is admitted
C8_Witness ==
    /\ rateResp.passed
    /\ rateResp.path = "/api/v1/billing/query"
    /\ rateResp.expired = 30
    /\ now >= 60
    /\ rate_limit_storage[rateResp.client_ip] = <<now>>

\* the shape of a failure result of query: the prefixed message, no reasoning,
\* no tools
IsErrorResult(result) ==
    /\ Len(result.answer) >= 24
    /\ SubSeq(result.answer, 1, 24) = "Error processing query: "
    /\ result.reasoning = ""
    /\ result.tools_used = 0

\* C11: query never raises.  A query on an agent without tables, a query whose
\* filter matches no loaded file and finds no cached executor, and a query whose
\* executor fails to be built or to run return a result whose answer starts
\* with "Error processing query: ", with empty reasoning and 0 tools used; a
\* query with tables loaded that finds no API key (none given, none in the
\* environment) returns a result with execution time 0 and 0 tools used.
\* (SpecAgent)
C11_QueryNeverRaises ==
    [][(agentResp'.op = "query")
       => LET result == agentResp'.result
              f == agentResp'.file_name
              k == agentResp'.api_key
              fault == agentResp'.fault
              no_tables == DOMAIN agent.loaded_files = {}
              no_key == /\ k = None
                        /\ env.OPENAI_API_KEY = None
                        /\ agent.default_llm = Nothing
              cached == \E ck \in DOMAIN agent.agent_cache :
                          ck = KeyHash(k) \o "_" \o (IF f = None THEN "all_files" ELSE f)
              no_match == /\ f # None
                          /\ \A name \in DOMAIN agent.loaded_files :
                               ~Contains(Lower(agent.loaded_files[name].file_path), Lower(f))
              succeeded == result.answer = "output" /\ result.tools_used >= 1
          IN  /\ ~agentResp'.raised
              /\ DOMAIN result = {"answer", "reasoning", "execution_time", "tools_used"}
              /\ IF no_tables THEN IsErrorResult(result)
                 ELSE IF no_key
                 THEN /\ result.execution_time = 0
                      /\ result.tools_used = 0
                      /\ ~IsErrorResult(result)
                 ELSE IF fault = "invoke" THEN IsErrorResult(result)
                 ELSE IF cached THEN succeeded
                 ELSE IF no_match \/ fault = "build" THEN IsErrorResult(result)
                 ELSE succeeded]_vars

\* C11 witness: the executor was built and its invocation failed; the query
\* returned the failure result
C11_Witness ==
    /\ agentResp.op = "query"
    /\ agentResp.fault = "invoke"
    /\ agentResp.executor # Nothing
    /\ ~agentResp.raised
    /\ IsErrorResult(agentResp.result)
    /\ agentResp.result.execution_time = 1

\* C12: a set-api-key that replaced the key a user held leaves no executor
\* cached under the old key's hash prefix in the user's service and stores the
\* new key; a later query of the user that runs an executor runs one bound to
\* the key the user holds then, built by a query under that key.  (Spec)
C12_RotationFlushesOldExecutors ==
    [][/\ (/\ response'.op = "set_api_key"
           /\ response'.status = 200
           /\ HasApiKey(store, response'.username))
          => LET u == response'.username
                 old_prefix == Md5Prefix(store[u].api_key)
             IN  /\ \A ck \in CachedKeys(services', u) : SubSeq(ck, 1, 8) # old_prefix
                 /\ store'[u].api_key = response'.arg
       /\ (/\ response'.op = "query"
           /\ response'.status = 200
           /\ "agent.query" \in response'.calls
           /\ response'.result.answer = "output")
          => LET u == response'.username
                 ck == Md5Prefix(store[u].api_key) \o "_" \o response'.arg
             IN  /\ ck \in CachedKeys(services', u)
                 /\ services'[u].agent.agent_cache[ck].llm.openai_api_key = store[u].api_key]_vars

\* C12 witness: alice, who held another key and has a service, set the key
\* whose hash prefix equals that of the first key; her service caches nothing
C12_Witness ==
    /\ response.op = "set_api_key"
    /\ response.status = 200
    /\ response.username = "alice"
    /\ response.arg = KeyC
    /\ "get_billing_service" \in response.calls
    /\ "alice" \in DOMAIN services
    /\ CachedKeys(services, "alice") = {}
    /\ "aug.xlsx" \in DOMAIN bucket

\* C13: remove-api-key for a user name always succeeds: for a user who holds a
\* key it clears the key and keeps the record with its is_new_user flag; for a
\* user without key or without record it changes neither the session store nor
\* the service registry.  (Spec; violated where the S3 credentials are not
\* configured: the handler builds the user's BillingService to flush its cache,
\* the construction raises, the request ends with 500 and the key stays.)
C13_RemoveAlwaysSucceeds ==
    [][(response'.op = "remove_api_key" /\ response'.username \in Usernames)
       => LET u == response'.username
          IN  /\ response'.status = 200
              /\ response'.body.success
              /\ IF HasApiKey(store, u)
                 THEN /\ DOMAIN store' = DOMAIN store
                      /\ store'[u].api_key = None
                      /\ store'[u].is_new_user = store[u].is_new_user
                      /\ \A b \in DOMAIN store \ {u} : store'[b] = store[b]
                 ELSE /\ store' = store
                      /\ services' = services]_vars

\* whether upload_excel_file's checks let a file name and a size through
ValidUpload(filename, size) ==
    /\ \/ SubSeq(filename, Len(filename) - 4, Len(filename)) = ".xlsx"
       \/ SubSeq(filename, Len(filename) - 3, Len(filename)) = ".xls"
    /\ size <= 52428800

\* C14 as stated: an upload is accepted exactly when its file name ends in
\* .xlsx or .xls and its size is at most 52,428,800 bytes, and a rejected upload
\* writes nothing to the bucket.  (SpecUpload; violated by a valid payload whose
\* S3 write fails, or with S3 not configured: it is answered 500.)
C14_AcceptedIffValid ==
    [][(response'.op = "upload")
       => /\ (response'.status = 200) <=> ValidUpload(response'.arg, upload'.size)
          /\ response'.status # 200 => bucket' = bucket]_vars

\* C14 amended: an upload is rejected with 400 exactly when its file name does
\* not end in .xlsx or .xls or its size exceeds 52,428,800 bytes; any other
\* upload is accepted (200, the object written) when S3 is configured and the
\* write succeeds, and answered 500 otherwise; an upload that is not accepted
\* writes nothing to the bucket.  (SpecUpload)
C14_RejectedIffInvalid ==
    [][(response'.op = "upload")
       => LET valid == ValidUpload(response'.arg, upload'.size)
              storage_ok == env.s3_configured /\ upload'.fault = "none"
          IN  /\ (response'.status = 400) <=> ~valid
              /\ (valid /\ storage_ok)
                   => /\ response'.status = 200
                      /\ response'.arg \in DOMAIN bucket'
                      /\ \A f \in DOMAIN bucket \ {response'.arg} :
                           f \in DOMAIN bucket' /\ bucket'[f] = bucket[f]
              /\ (valid /\ ~storage_ok) => response'.status = 500
              /\ response'.status # 200 => bucket' = bucket]_vars

\* C14 witness: a workbook of exactly 52,428,800 bytes was accepted and written
C14_Witness ==
    /\ response.op = "upload"
    /\ response.status = 200
    /\ upload.size = 52428800
    /\ response.arg \in DOMAIN bucket

\* the trimmed lines of a log that start with Thought: or Action:, in order
KeptLines(log) ==
    LET lines == Split(log, "\n")
    IN  SelectSeq([i \in 1..Len(lines) |-> Strip(lines[i])], KeepLine)

RECURSIVE JoinWith(_, _)
\* the texts of a sequence with a separator between neighbours
JoinWith(texts, sep) ==
    IF texts = <<>> THEN ""
    ELSE IF Len(texts) = 1 THEN texts[1]
    ELSE texts[1] \o sep \o JoinWith(Tail(texts), sep)

\* the transcript with exactly one blank line between the kept lines of steps
OneBlankLineTranscript(steps) ==
    LET HasKept(step) == KeptLines(step.log) # <<>>
        groups == SelectSeq(steps, HasKept)
    IN  JoinWith([i \in 1..Len(groups) |-> JoinWith(KeptLines(groups[i].log), "\n")],
                 "\n\n")

\* C15: the transcript is the kept lines (trimmed, starting with Thought: or
\* Action:) in order, the kept lines of consecutive steps separated by exactly
\* one blank line, also when some step's log has no kept line.
\* (SpecTranscript; violated: a step with a log but no kept line between two
\* steps with kept lines leaves two blank lines.)
C15_OneBlankLineBetweenSteps ==
    extraction.done => extraction.reasoning = OneBlankLineTranscript(extraction.steps)

C17_CleanupDropsService ==
    [][(response'.op = "cleanup_session" /\ ~Falsy(response'.username))
       => LET u == response'.username
              had == u \in DOMAIN services
              next_service == GetBillingService(services', u)[u]
          IN  /\ response'.status = 200
              /\ ("_invalidate_cache" \in response'.calls) <=> had
              /\ "cleanup_user_session" \in response'.calls
              /\ DOMAIN services' = DOMAIN services \ {u}
              /\ \A v \in DOMAIN services' : services'[v] = services[v]
              /\ ~had => services' = services
              /\ next_service.agent.loaded_files = EmptyDict
              /\ next_service.agent.agent_cache = EmptyDict
              /\ store' = store
              /\ bucket' = bucket]_vars

\* C17 witness: the session of a user whose service was live has been cleaned
\* up while another user's service holds a cached executor
C17_Witness ==
    /\ response.op = "cleanup_session"
    /\ response.status = 200
    /\ "_invalidate_cache" \in response.calls
    /\ response.username \notin DOMAIN services
    /\ \E v \in DOMAIN services : services[v].agent.agent_cache # EmptyDict

\* C18: an upload answered 200 has written the workbook to the bucket and has
\* loaded no table into any agent; with a username the user's service has an
\* empty executor cache afterwards and every other service is as it was; without
\* one no service changes.  (Spec)
C18_UploadStoresWithoutLoading ==
    [][(response'.op = "upload" /\ response'.status = 200)
       => LET u == response'.username
          IN  /\ response'.arg \in DOMAIN bucket'
              /\ \A v \in DOMAIN services' : services'[v].agent.loaded_files = EmptyDict
              /\ \A v \in DOMAIN services \ {u} :
                   v \in DOMAIN services' /\ services'[v] = services[v]
              /\ IF Falsy(u)
                     THEN services' = services
                     ELSE /\ DOMAIN services' = DOMAIN services \cup {u}
                          /\ services'[u].agent.agent_cache = EmptyDict]_vars

\* C18 witness: a user's upload was accepted while another user's service
\* holds a cached executor
C18_Witness ==
    /\ response.op = "upload"
    /\ response.status = 200
    /\ response.username \in DOMAIN services
    /\ services[response.username].agent.agent_cache = EmptyDict
    /\ \E v \in DOMAIN services : services[v].agent.agent_cache # EmptyDict

\* C19: the credential status reports the currently cached executor keys and
\* their count: when the user's service holds cached executors, the reported
\* list contains their keys and the reported count is their number.
\* (Spec; violated: the status reads the cache of a service built for the
\* request, which is empty.)
C19_StatusReportsCachedExecutors ==
    (/\ response.op = "api_key_status"
     /\ response.status = 200
     /\ response.username \in DOMAIN services)
    => LET cache == services[response.username].agent.agent_cache
       IN  /\ DOMAIN cache \subseteq response.body.cache_info.cached_executors
           /\ response.body.cache_info.cache_size = Cardinality(DOMAIN cache)

\* C20: a status request leaves the store as it is, creating no record; the
\* status it returns for a user without a record is exists = False,
\* has_api_key = False, is_new_user = True, and for a user with a record
\* exists = True and has_api_key = (the stored key is not None).  (Spec; the
\* status is read from the responses that carry it, those answered 200.)
C20_StatusReflectsRecord ==
    [][(response'.op = "api_key_status")
       => /\ store' = store
          /\ response'.status = 200
               => LET u == response'.username
                      b == response'.body
                  IN  IF u \notin DOMAIN store
                          THEN ~b.exists /\ ~b.has_api_key /\ b.is_new_user
                          ELSE /\ b.exists
                               /\ b.has_api_key <=> (store[u].api_key # None)]_vars

\* C20 witness: a status was returned for a user whose record holds no key,
\* while another identity has no record at all
C20_Witness ==
    /\ response.op = "api_key_status"
    /\ response.status = 200
    /\ response.username \in DOMAIN store
    /\ store[response.username].api_key = None
    /\ ~response.body.has_api_key
    /\ \E v \in Usernames : v \notin DOMAIN store

\* C21: a request to /health or / passes the middleware, is never answered 429
\* and leaves rate_limit_storage as it is, so it takes nothing from what its
\* client may still send; a request to any other path goes through
\* check_rate_limit: it is recorded with the current time, or rejected with 429.
\* (SpecRate)
C21_HealthAndRootExempt ==
    [][(now' = now /\ rateResp'.path # None)
       => IF rateResp'.path \in {"/health", "/"}
              THEN /\ rateResp'.passed
                   /\ rateResp'.status # 429
                   /\ rate_limit_storage' = rate_limit_storage
              ELSE LET ip == rateResp'.client_ip
                       window == rate_limit_storage'[ip]
                   IN  IF rateResp'.passed
                           THEN /\ window # <<>>
                                /\ window[Len(window)] = now
                                /\ Len(window) =
                                     Cardinality(RecentRequests(ip)) + 1
                           ELSE /\ rateResp'.status = 429
                                /\ Len(window) = 30]_vars

\* C21 witness: a client with 30 requests in its window, which the limiter
\* rejects on other paths, was let through on /health
C21_Witness ==
    /\ rateResp.path = "/health"
    /\ rateResp.passed
    /\ rateResp.client_ip \in DOMAIN rate_limit_storage
    /\ Cardinality(RecentRequests(rateResp.client_ip)) = 30

\* C22: the registry holds each user's own service under the user's name, and
\* a request made for one user (or for none) leaves the service of every other
\* user, with its loaded tables and cached executors, registered and as it was;
\* only the requesting user's service may join the registry.  (Spec)
C22_ServicesIsolated ==
    [][/\ \A b \in DOMAIN services' : services'[b].username = b
       /\ \A b \in DOMAIN services \ {response'.username} :
            /\ b \in DOMAIN services'
            /\ services'[b] = services[b]
       /\ DOMAIN services' \subseteq DOMAIN services \cup {response'.username}]_vars

\* C22 witness: a query of alice cached an executor in her service while bob's
\* service holds one of its own
C22_Witness ==
    /\ response.op = "query"
    /\ response.status = 200
    /\ response.username = "alice"
    /\ CachedKeys(services, "alice") # {}
    /\ CachedKeys(services, "bob") # {}
    /\ services["alice"].username = "alice"
    /\ services["bob"].username = "bob"

\* C23: a user who has a record in the session store has one in every later
\* state: no request removes a record.  (Spec)
C23_RecordsStay ==
    [][\A u \in DOMAIN store : u \in DOMAIN store']_vars

\* C23 witness: a user's key was removed and the session cleaned up, and the
\* record is still there, without a key and without a service
C23_Witness ==
    /\ response.op = "cleanup_session"
    /\ response.status = 200
    /\ response.username \in DOMAIN store
    /\ store[response.username].api_key = None
    /\ response.username \notin DOMAIN services

\* C24: invalidate_session_cache(api_key) removes exactly the cached executors
\* whose cache key starts with the first 8 hex digits of the MD5 of api_key
\* ("default" without a key), keeps every other cached executor as it is, and
\* leaves loaded_files unchanged.  (SpecAgent)
C24_InvalidateSessionExact ==
    [][(agentResp'.op = "invalidate_session_cache")
       => LET prefix == IF agentResp'.api_key \in {None, ""}
                            THEN "default"
                            ELSE Md5Prefix(agentResp'.api_key)
              kept == {ck \in DOMAIN agent.agent_cache :
                         ~(Len(ck) >= Len(prefix) /\ SubSeq(ck, 1, Len(prefix)) = prefix)}
          IN  /\ DOMAIN agent'.agent_cache = kept
              /\ \A ck \in kept : agent'.agent_cache[ck] = agent.agent_cache[ck]
              /\ agent'.loaded_files = agent.loaded_files
              /\ agent'.default_llm = agent.default_llm]_vars

\* C24 witness: after invalidate_session_cache for a key, the agent still has
\* its tables and the executors cached for the default session
C24_Witness ==
    /\ agentResp.op = "invalidate_session_cache"
    /\ agentResp.api_key = KeyA
    /\ agent.loaded_files # EmptyDict
    /\ agent.agent_cache # EmptyDict
    /\ \A ck \in DOMAIN agent.agent_cache : SubSeq(ck, 1, 7) = "default"

\* C25: a query that reaches _get_or_create_agent_executor (tables are loaded
\* and a credential is available) and finds its cache key cached gets the
\* cached executor, and the cache stays as it is.  On a miss the selected
\* tables are, with a filter, the loaded tables whose file path contains the
\* filter, both in lower case, and without one all loaded tables: an empty
\* selection ends in "No loaded file matches" with nothing cached; otherwise,
\* unless the construction fails, the executor built and cached has one tool
\* for each selected table, on that table's dataframe.  (SpecAgent)
C25_ToolsForSelectedTables ==
    [][(/\ agentResp'.op = "query"
        /\ agent.loaded_files # EmptyDict
        /\ (agentResp'.api_key \notin {None, ""} \/ env.OPENAI_API_KEY # None))
       => LET f == agentResp'.file_name
              filtered == f \notin {None, ""}
              Selection == IF filtered
                           THEN \* the filter in lower case, computed once
                                UNION {{n \in DOMAIN agent.loaded_files :
                                          Contains(Lower(agent.loaded_files[n].file_path), lf)} :
                                       lf \in {Lower(f)}}
                           ELSE DOMAIN agent.loaded_files
          IN  /\ agent'.loaded_files = agent.loaded_files
              /\ \A ck \in {GetCacheKey(agentResp'.api_key, f)} :
                 IF ck \in DOMAIN agent.agent_cache
                 THEN /\ agentResp'.executor = {agent.agent_cache[ck]}
                      /\ ~agentResp'.built
                      /\ agent'.agent_cache = agent.agent_cache
                 ELSE \A selected \in {Selection} :
                      IF filtered /\ selected = {}
                      THEN /\ agentResp'.result.answer =
                                "Error processing query: No loaded file matches: " \o f
                           /\ agentResp'.executor = {}
                           /\ agent'.agent_cache = agent.agent_cache
                      ELSE IF agentResp'.fault = "build"
                      THEN /\ agentResp'.executor = {}
                           /\ agent'.agent_cache = agent.agent_cache
                      ELSE /\ agentResp'.built
                           /\ \E ex \in agentResp'.executor :
                                /\ {t.name : t \in ex.tools} = selected
                                /\ Cardinality(ex.tools) = Cardinality(selected)
                                /\ \A t \in ex.tools :
                                     t.dataframe = agent.loaded_files[t.name].dataframe
                                /\ DOMAIN agent'.agent_cache = DOMAIN agent.agent_cache \cup {ck}
                                /\ agent'.agent_cache[ck] = ex]_vars

\* C25 witness: a query filtered by "aug" built an executor with a tool for
\* aug.xlsx and one for AUG.xls
C25_Witness ==
    /\ agentResp.op = "query"
    /\ agentResp.file_name = "aug"
    /\ agentResp.built
    /\ \E ex \in agentResp.executor :
         {t.name : t \in ex.tools} = {"Excel Agent - aug", "Excel Agent - AUG"}

\* C26: an upload that passes the file checks and whose S3 write fails (with a
\* ClientError or another exception) is answered 500, and leaves every service
\* with its loaded tables and cached executors, the bucket and the session
\* store as they were.  (SpecUploadFault)
C26_FailedWriteChangesNothing ==
    [][(/\ response'.op = "upload"
        /\ upload'.fault # "none"
        /\ env.s3_configured
        /\ ValidUpload(response'.arg, upload'.size))
       => /\ response'.status = 500
          /\ services' = services
          /\ bucket' = bucket
          /\ store' = store]_vars

\* C26 witness: the upload of a user whose service holds a cached executor
\* failed at the S3 write
C26_Witness ==
    /\ response.op = "upload"
    /\ response.status = 500
    /\ upload.fault = "client_error"
    /\ upload.size <= 52428800
    /\ response.arg = "aug.xlsx"
    /\ CachedKeys(services, response.username) # {}

\* C28: no client's list in rate_limit_storage is longer than 30; a rejected
\* request is not recorded: it leaves its client's list holding exactly the 30
\* recorded times that are less than 60 seconds old, and other clients' lists
\* alone; and a request of a client whose list is full is admitted once 60
\* seconds have passed since the oldest time in the list.  (SpecRate)
C28_RejectedNotRecorded ==
    [][/\ \A ip \in DOMAIN rate_limit_storage' : Len(rate_limit_storage'[ip]) <= 30
       /\ (now' = now /\ rateResp'.path \notin {None, "/", "/health"})
          => LET ip == rateResp'.client_ip
                 before == Requests(rate_limit_storage, ip)
                 after == rate_limit_storage'[ip]
             IN  /\ ~rateResp'.passed
                    => /\ Len(after) = 30
                       /\ after = SubSeq(before, Len(before) - 29, Len(before))
                       /\ \A i \in 1..30 : now - after[i] < 60
                 /\ (before # <<>> /\ now - before[1] >= 60) => rateResp'.passed
                 /\ \A other \in DOMAIN rate_limit_storage \ {ip} :
                      rate_limit_storage'[other] = rate_limit_storage[other]]_vars

\* C28 witness: a client that was blocked, and admitted again a window later,
\* is blocked once more with 30 requests of the new window in its list
C28_Witness ==
    /\ ~rateResp.passed
    /\ rateResp.status = 429
    /\ now >= 60
    /\ Len(rate_limit_storage[rateResp.client_ip]) = 30
    /\ \A i \in 1..30 : rate_limit_storage[rateResp.client_ip][i] = now

\* C29: whatever the interleaving of concurrent requests, the prune, check
\* and append of one request run as one step: an IP never has more than 30
\* admitted requests on record, a request time leaves the record only when
\* it is 60 seconds older than everything that stays or is admitted later
\* (so the record holds every admission of any 60-second window), a request
\* is admitted only when fewer than 30 of its IP were on record, and a step
\* of the limiter changes the list of the stepping request's IP only.
\* (SpecRateTasks)
C29_LimiterAtomic ==
    [][/\ \A ip \in DOMAIN rate_limit_storage' : Len(rate_limit_storage'[ip]) <= 30
       /\ \A ip \in DOMAIN rate_limit_storage :
            \A before \in {rate_limit_storage[ip]}, after \in {rate_limit_storage'[ip]} :
              before # after
              => \A i \in 1..Len(before) :
                   \/ \E j \in 1..Len(after) : after[j] = before[i]
                   \/ /\ now - before[i] >= 60
                      /\ \A j \in 1..Len(after) : after[j] - before[i] >= 60
       /\ \A ip \in ClientIps :
            Requests(rate_limit_storage', ip) # Requests(rate_limit_storage, ip)
            => \E t \in DOMAIN tasks :
                 /\ tasks[t].client_ip = ip
                 /\ t \notin DOMAIN tasks' \/ tasks'[t] # tasks[t]
                 /\ \A u \in DOMAIN tasks \ {t} : u \in DOMAIN tasks' /\ tasks'[u] = tasks[u]
       /\ \A t \in DOMAIN tasks \ DOMAIN tasks' :
            rateResp'.passed
            => /\ Len(Requests(rate_limit_storage, tasks[t].client_ip)) < 30
               /\ Len(Requests(rate_limit_storage', tasks[t].client_ip)) <= 30]_vars

\* C29 witness: a request is about to be recorded as the 30th of its IP while
\* another request of the same IP is in flight
C29_Witness ==
    \E t \in DOMAIN tasks, u \in DOMAIN tasks :
      /\ t # u
      /\ running = t
      /\ tasks[t].pc = "append"
      /\ tasks[u].pc = "arrived"
      /\ tasks[u].client_ip = tasks[t].client_ip
      /\ Len(Requests(rate_limit_storage, tasks[t].client_ip)) = 29
      /\ \A i \in 1..29 : now - rate_limit_storage[tasks[t].client_ip][i] < 60

\* C30: a query whose file was loaded finds its table when it comes to its
\* executor, whatever other queries of the same identity are in flight: the
\* table stays in the map until the query has passed the lookup, and the
\* query never ends with the "no files loaded" or the "no matching file"
\* failure.  (SpecQueries)
C30_LoadedQueryFindsItsTable ==
    [][/\ \A t \in DOMAIN tasks' :
            tasks'[t].pc = "query"
            => /\ tasks'[t].loaded
               /\ ToolName(tasks'[t].file_name)
                    \in DOMAIN services'[tasks'[t].username].agent.loaded_files
       /\ \A t \in DOMAIN tasks :
            (tasks[t].pc = "query" /\ tasks'[t].pc # "query")
            => \A answer \in {tasks'[t].result.answer} :
                 /\ ~StartsWith(answer, "Error processing query: No Excel files loaded")
                 /\ ~StartsWith(answer, "Error processing query: No loaded file matches")
                 /\ ~StartsWith(answer, "Error processing query: load_excel_file()")
       /\ \A t \in DOMAIN tasks \ DOMAIN tasks' :
            (tasks[t].loaded /\ response'.status = 200)
            => /\ ~StartsWith(response'.result.answer, "Error processing query: No ")
               /\ response'.body.answer = response'.result.answer]_vars

\* C30 witness: a query has loaded its file and holds its executor while a
\* second query of the same identity is in flight, after an earlier query of
\* that identity has unloaded the tables
C30_Witness ==
    \E t \in DOMAIN tasks, u \in DOMAIN tasks :
      /\ t # u
      /\ tasks[t].pc = "invoke"
      /\ tasks[t].loaded
      /\ tasks[u].pc = "arrived"
      /\ tasks[u].username = tasks[t].username
      /\ tasks[u].file_name \notin {None, tasks[t].file_name}
      /\ response.username = tasks[t].username
      /\ "unload" \in response.calls
      /\ DOMAIN services[tasks[t].username].agent.loaded_files
           = {ToolName(tasks[t].file_name)}

C31_AuthorizedQuerySucceeds ==
    [][(response'.op = "query" /\ response' # response)
       => LET username == response'.username
              authorized == /\ username \in DOMAIN store
                            /\ ~Falsy(store[username].api_key)
              raises == username \notin DOMAIN services /\ ~env.s3_configured
          IN  /\ ~authorized <=> response'.status = 401
              /\ (authorized /\ raises) <=> response'.status = 500
              /\ (authorized /\ ~raises) <=> response'.status = 200
              /\ response'.status = 200
                 => /\ response'.body.success
                    /\ response'.body.using_custom_key
                    /\ response'.body.username = username
                    /\ response'.body.answer = response'.result.answer
                    /\ "process_query" \in response'.calls
              /\ response'.status = 500 => "process_query" \notin response'.calls]_vars

\* C31 witness: a query whose agent ended with an error result is answered
\* with success = true
C31_Witness ==
    /\ response.op = "query"
    /\ response.status = 200
    /\ response.body.success
    /\ response.body.using_custom_key
    /\ IsErrorResult(response.result)
    /\ "agent.query" \in response.calls

\* C32: cleanup-session changes nothing but the registry of services, from
\* which it removes the identity's entry: the session records (key and
\* is_new_user flag of every identity), the bucket and the environment are as
\* before, so the identity's status is as before; and a query of the identity
\* that follows the cleanup is turned away with 401 only if the record holds
\* no key, so an identity that was authorized before the cleanup still is.
\* (Spec)
C32_CleanupKeepsSession ==
    [][/\ response'.op = "cleanup_session"
          => /\ store' = store
             /\ bucket' = bucket
             /\ env' = env
             /\ \A u \in Usernames : GetUserStatus(store', u) = GetUserStatus(store, u)
             /\ \A u \in Usernames : StoreGet(store', u) = StoreGet(store, u)
             /\ DOMAIN services' = DOMAIN services \ {response'.username}
             /\ \A v \in DOMAIN services' : services'[v] = services[v]
       /\ (/\ response.op = "cleanup_session"
           /\ response.status = 200
           /\ response'.op = "query"
           /\ response'.username = response.username)
          => /\ response'.status = 401 <=> ~HasApiKey(store, response.username)
             /\ store' = store]_vars

\* C32 witness: an identity with a key and a service has been cleaned up: its
\* service is gone, its key and flag are there
C32_Witness ==
    /\ response.op = "cleanup_session"
    /\ response.status = 200
    /\ "_invalidate_cache" \in response.calls
    /\ response.username \notin DOMAIN services
    /\ HasApiKey(store, response.username)
    /\ GetUserStatus(store, response.username).exists

====
